---- MODULE Spec2Model ----
(***************************************************************************)
(* Procedural building shell generator (util.py, damage.py, interiors.py,  *)
(* mesh_builder.py, operators.py) as a state machine.                      *)
(*                                                                         *)
(* Numbers.  The code computes with floats.  Here a length is an integer   *)
(* number of units, 27720 units to the centimetre (27720 = lcm(1..11)), so *)
(* that the divisions the opening layout performs (by 2 and by count + 1,  *)
(* count <= 10) are exact on inputs given in centimetres.  A dimensionless *)
(* factor (damage_amount, pointiness, door offsets, collapse intensities,  *)
(* a draw of random()) is an integer number of thousandths.                *)
(***************************************************************************)
EXTENDS Integers, Sequences, FiniteSets, TLC

VARIABLES
    params,          \* BuildingShellBuilder.params: the parameter mapping
    pc,              \* position of build()
    rng,             \* state of the module-level stream of `random`
    draws,           \* the draws the current build has made, in order
    floor_idx,       \* loop variable of the floor loops of build()
    mesh,            \* self.bm: the sequence of elements emitted so far
    damage_profile,  \* local damage_profile of build() (NoProfile = None)
    intact_floors,   \* local intact_floors of build()
    piles,           \* _generate_rubble_piles: pile_positions
    pile_i,          \* _generate_rubble_piles: index of the pile being placed
    attempts,        \* _generate_rubble_piles: attempts of the current pile
    steps,           \* number of steps the current build has taken
    ref,             \* the first finished build: its mapping and its mesh
    call,            \* a direct call of one function: its name and arguments
    result           \* what the call returned (NoResult before it returns)

vars == <<params, pc, rng, draws, floor_idx, mesh, damage_profile,
          intact_floors, piles, pile_i, attempts, steps, ref, call, result>>

buildVars == <<params, pc, rng, draws, floor_idx, mesh, damage_profile,
               intact_floors, piles, pile_i, attempts, steps, ref>>

-----------------------------------------------------------------------------
(* Units and arithmetic *)

CM == 8 * 9 * 5 * 7 * 11
M == 100 * CM

Max(a, b) == IF a >= b THEN a ELSE b
Min(a, b) == IF a <= b THEN a ELSE b
Abs(a) == IF a >= 0 THEN a ELSE 0 - a

\* x * k / 1000 for a factor k in thousandths, without leaving 32 bits
MulK(x, k) ==
    LET Scaled[ax \in Nat, ak \in Nat] ==
            (ax \div 1000) * ak + ((ax % 1000) * ak) \div 1000
        Signed[xv \in Int, kv \in Int] ==
            IF (xv >= 0) = (kv >= 0) THEN Scaled[Abs(xv), Abs(kv)]
            ELSE 0 - Scaled[Abs(xv), Abs(kv)]
    IN  Signed[x, k]

\* a / b as a factor in thousandths (a, b lengths, b > 0), to three digits
RatioK(a, b) == ((a \div 1000) * 1000) \div Max(1, b \div 1000)

\* int(): truncation toward zero of a / b
IntDiv(a, b) == IF a >= 0 THEN a \div b ELSE 0 - ((0 - a) \div b)

\* min() of a nonempty collection of heights
SetMin(hs) == CHOOSE lowest \in hs : \A other \in hs : lowest <= other

-----------------------------------------------------------------------------
(* util.py: the shared pseudorandom stream.  random.seed and the generator *)
(* are the library's; they are modelled by a full-period congruential      *)
(* generator: the state after seeding is a function of the seed alone and  *)
(* every draw advances the state.                                          *)

RngMod == 64 * 64

RngStep(s) == (s * 1229 + 1) % RngMod

\* util.seed_random(seed)
seed_random(seed) == (seed * 2741 + 977) % RngMod

\* the state of the stream n draws after state s: n draws in one stride,
\* RngStep applied k times to s being Mul[k] * s + Add[k]
RngAfter(s, n) ==
    LET Mul[k \in Nat] ==
            IF k = 0 THEN 1
            ELSE ((IF k % 2 = 1 THEN 1229 ELSE 1)
                    * ((Mul[k \div 2] * Mul[k \div 2]) % RngMod)) % RngMod
        Add[k \in Nat] ==
            IF k = 0 THEN 0
            ELSE ((IF k % 2 = 1 THEN 1229 ELSE 1)
                    * ((Add[k \div 2] * (Mul[k \div 2] + 1)) % RngMod)
                  + (k % 2)) % RngMod
    IN  (Mul[n] * s + Add[n]) % RngMod

\* random.random() of the n-th draw (n >= 1) from state s, in thousandths: [0, 1000)
RandomAt(s, n) == (RngAfter(s, n) * 1000) \div RngMod

\* util.random_float(min_val, max_val) on lengths, as the n-th draw
random_float(s, n, lo, hi) == lo + MulK(hi - lo, RandomAt(s, n))

\* util.random_float on factors in thousandths
random_factor(s, n, lo, hi) == lo + ((hi - lo) * RandomAt(s, n)) \div 1000

\* util.random_bool(probability), probability in thousandths
random_bool(s, n, probability) == RandomAt(s, n) < probability

\* util.random_int(min_val, max_val), inclusive
random_int(s, n, lo, hi) == lo + (RandomAt(s, n) * (hi - lo + 1)) \div 1000

-----------------------------------------------------------------------------
(* damage.py: generate_damage_profile *)

NoSeed == 0 - 1
WallNames == <<"front", "back", "left", "right">>

\* line 35: base_damage_depth = total_height * 0.85 * damage_amount
BaseDamageDepth(total_height, damage_amount) ==
    MulK(MulK(total_height, 850), damage_amount)

\* line 36: variance_range = base_damage_depth * pointiness
VarianceRange(base_damage_depth, pointiness) == MulK(base_damage_depth, pointiness)

\* line 37: absolute_min = max(min_intact_height, total_height * 0.1)
AbsoluteMin(min_intact_height, total_height) ==
    Max(min_intact_height, MulK(total_height, 100))

\* lines 75-76: number of intervals of a wall's profile
NumPoints(wall_length, resolution) ==
    LET base_points == Max(3, IntDiv(wall_length * 10, 8 * M))
    IN  Max(3, IntDiv(base_points * resolution, 1000))

\* lines 58-69: the zones of the collapsed corners; zi[k] is the pair of
\* intensities drawn for corner k (k = 1..4), cc[k] whether it collapsed
CornerZones(width, depth, cc, zi) ==
    (IF cc[1] THEN << <<"front", 0, MulK(width, 300), zi[1][1]>>,
                      <<"left", 0, MulK(depth, 300), zi[1][2]>> >> ELSE <<>>)
    \o (IF cc[2] THEN << <<"front", MulK(width, 700), width, zi[2][1]>>,
                         <<"right", 0, MulK(depth, 300), zi[2][2]>> >> ELSE <<>>)
    \o (IF cc[3] THEN << <<"back", MulK(width, 700), width, zi[3][1]>>,
                         <<"left", MulK(depth, 700), depth, zi[3][2]>> >> ELSE <<>>)
    \o (IF cc[4] THEN << <<"back", 0, MulK(width, 300), zi[4][1]>>,
                         <<"right", MulK(depth, 700), depth, zi[4][2]>> >> ELSE <<>>)

\* lines 83-89: collapse_multiplier of a sample at pos of wall_name
RECURSIVE CollapseMultiplier(_, _, _, _)
CollapseMultiplier(zones, wall_name, pos, acc) ==
    IF zones = <<>> THEN acc
    ELSE LET z == Head(zones)
             zone_center == (z[2] + z[3]) \div 2
             zone_dist == RatioK(Abs(pos - zone_center), (z[3] - z[2]) \div 2 + CM)
             zone_factor == 1000 - zone_dist \div 2
             next == IF z[1] = wall_name /\ z[2] <= pos /\ pos <= z[3]
                     THEN Max(acc, 1000 + IntDiv((z[4] - 1000) * zone_factor, 1000))
                     ELSE acc
         IN  CollapseMultiplier(Tail(zones), wall_name, pos, next)

\* lines 91-94: height_loss of one sample; r is the sample's random offset
HeightLoss(base_damage_depth, variance_range, wall_multiplier, collapse_multiplier, r) ==
    LET base_loss == MulK(MulK(base_damage_depth, wall_multiplier), collapse_multiplier)
        variance_offset == MulK(MulK(variance_range, wall_multiplier), r - 500)
    IN  Max(0, base_loss + variance_offset)

\* line 95: height = max(absolute_min, min(total_height, total_height - height_loss))
SampleHeight_NoFloor(total_height, absolute_min, height_loss) ==
    Min(total_height, total_height - height_loss)
SampleHeight(total_height, absolute_min, height_loss) ==
    Max(absolute_min, Min(total_height, total_height - height_loss))

\* line 102: min_height = max(min_height, min_intact_height)
FinalMinHeight(min_height, min_intact_height) == Max(min_height, min_intact_height)

\* lines 21-29: the flat profile returned for damage_amount <= 0
FlatProfile(width, depth, total_height) ==
    [front |-> << <<0, total_height>>, <<width, total_height>> >>,
     back  |-> << <<0, total_height>>, <<width, total_height>> >>,
     left  |-> << <<0, total_height>>, <<depth, total_height>> >>,
     right |-> << <<0, total_height>>, <<depth, total_height>> >>,
     min_height |-> total_height,
     intact_height |-> total_height]

Count(flags) == Cardinality({k \in DOMAIN flags : flags[k]})
CountBefore(flags, j) == Cardinality({k \in DOMAIN flags : k < j /\ flags[k]})

\* generate_damage_profile(width, depth, total_height, damage_amount,
\*   min_intact_height, pointiness, resolution, seed), called with the stream
\* in state s0.  Returns the profile and the state the stream is left in.
generate_damage_profile(width, depth, total_height, damage_amount, min_intact_height, pointiness, resolution, seed, s0) ==
    LET s == IF seed # NoSeed THEN seed_random(seed) ELSE s0
    IN  IF damage_amount <= 0
        THEN [profile |-> FlatProfile(width, depth, total_height), rng |-> s,
              from |-> s, drawn |-> 0]
        ELSE
        LET base_damage_depth == BaseDamageDepth(total_height, damage_amount)
            variance_range == VarianceRange(base_damage_depth, pointiness)
            absolute_min == AbsoluteMin(min_intact_height, total_height)
            \* lines 40-45: four draws, front, back, left, right
            wall_collapse == [j \in 1..4 |->
                random_bool(s, j, MulK(damage_amount,
                                       IF j <= 2 THEN 400 ELSE 350))]
            \* lines 47-52: one draw for each collapsed wall, in order
            wall_collapse_intensity == [j \in 1..4 |->
                IF wall_collapse[j]
                THEN random_factor(s, 4 + CountBefore(wall_collapse, j) + 1, 1300, 2000)
                ELSE 1000]
            n1 == 4 + Count(wall_collapse)
            \* line 55: four draws
            corner_collapse == [k \in 1..4 |->
                random_bool(s, n1 + k, MulK(damage_amount, 250))]
            n2 == n1 + 4
            \* lines 58-69: two draws for each collapsed corner, in order
            zone_intensity == [k \in 1..4 |->
                LET at == n2 + 2 * CountBefore(corner_collapse, k)
                IN  <<random_factor(s, at + 1, 1500, 2500),
                      random_factor(s, at + 2, 1500, 2500)>>]
            corner_collapse_zones ==
                CornerZones(width, depth, corner_collapse, zone_intensity)
            n3 == n2 + 2 * Count(corner_collapse)
            wall_length(j) == IF j <= 2 THEN width ELSE depth
            num_points(j) == NumPoints(wall_length(j), resolution)
            \* draws made before the offsets of wall j (line 78)
            first(j) == n3 + (IF j > 1 THEN num_points(1) + 1 ELSE 0)
                           + (IF j > 2 THEN num_points(2) + 1 ELSE 0)
                           + (IF j > 3 THEN num_points(3) + 1 ELSE 0)
            sample(j, i) ==
                LET pos == (i * wall_length(j)) \div num_points(j)
                    cm == CollapseMultiplier(corner_collapse_zones,
                                             WallNames[j], pos, 1000)
                    r == RandomAt(s, first(j) + i + 1)
                    loss == HeightLoss(base_damage_depth, variance_range,
                                       wall_collapse_intensity[j], cm, r)
                IN  <<pos, SampleHeight(total_height, absolute_min, loss)>>
            profile(j) == [i \in 1..(num_points(j) + 1) |-> sample(j, i - 1)]
            \* lines 32, 98: the running minimum, starting at total_height
            min_height ==
                SetMin({total_height} \cup
                       UNION {{sample(w, k)[2] : k \in 0..num_points(w)} :
                                 w \in 1..4})
        IN  [profile |->
                [front |-> profile(1), back |-> profile(2),
                 left |-> profile(3), right |-> profile(4),
                 min_height |-> FinalMinHeight(min_height, min_intact_height),
                 intact_height |-> min_intact_height],
             rng |-> RngAfter(s, first(4) + num_points(4) + 1),
             from |-> s, drawn |-> first(4) + num_points(4) + 1]

\* get_intact_floor_count(min_height, floor_height)
get_intact_floor_count(min_height, floor_height) ==
    IF floor_height <= 0 THEN 0 ELSE IntDiv(min_height, floor_height)

-----------------------------------------------------------------------------
(* mesh_builder.py: build(), lines 743-766: the damage profile of a build *)

NoProfile == [min_height |-> 0 - 1]

\* line 746: min_intact_height = max(door_height + 0.5, floor_height * 0.8)
MinIntactHeight(door_height, floor_height) ==
    Max(door_height + 50 * CM, MulK(floor_height, 800))

\* line 766: intact_floors = max(1, intact_floors)
AtLeastGroundFloor_None(n) == n
AtLeastGroundFloor(n) == Max(1, n)

\* lines 733-766.  Returns damage_profile (NoProfile when no damage is
\* applied), intact_floors, the damage_min_height written to the mapping
\* (NoValue when none is written), the state the stream is left in, the
\* state it was in before the first draw and the number of draws.
NoValue == 0 - 1

\* lines 757-766: what build() keeps of the profile it got
DamageOutcome(p, got) ==
    [damage_profile |-> got.profile,
     intact_floors |-> AtLeastGroundFloor(
         get_intact_floor_count(got.profile.min_height, p.floor_height)),
     damage_min_height |-> got.profile.min_height,
     rng |-> got.rng, from |-> got.from, drawn |-> got.drawn]

BuildDamage(p, s0) ==
    IF p.enable_damage /\ p.damage_amount > 0
    THEN DamageOutcome(p, generate_damage_profile(
                              p.width, p.depth, p.floors * p.floor_height,
                              p.damage_amount,
                              MinIntactHeight(p.door_height, p.floor_height),
                              p.damage_pointiness, p.damage_resolution,
                              p.seed, s0))
    ELSE [damage_profile |-> NoProfile,
          intact_floors |-> p.floors,
          damage_min_height |-> NoValue,
          rng |-> s0, from |-> s0, drawn |-> 0]

-----------------------------------------------------------------------------
(* Direct calls of single functions: call holds the function's name and    *)
(* arguments, result what it returned.                                     *)

NoCall == [fn |-> "none"]
NoResult == [kind |-> "none"]
NoParams == [seed |-> 0 - 1]
NoRef == [set |-> FALSE, params |-> NoParams, mesh |-> <<>>, draws |-> <<>>,
          found |-> 0 - 1, first |-> 0 - 1]

\* build() is not running and no builder exists
BuildIdle ==
    /\ params = NoParams
    /\ pc = "idle"
    /\ rng = 0
    /\ draws = <<>>
    /\ floor_idx = 0
    /\ mesh = <<>>
    /\ damage_profile = NoProfile
    /\ intact_floors = 0
    /\ piles = <<>>
    /\ pile_i = 0
    /\ attempts = 0
    /\ steps = 0
    /\ ref = NoRef

MaxSeed == 3
MaxFloors == 3
Seeds == 0..MaxSeed

\* states the stream may have been left in by earlier draws
StreamStates == {(k * RngMod) \div (MaxSeed + 1) + 5 : k \in 0..MaxSeed}

DamageCalls ==
    [fn : {"generate_damage_profile"},
     width : {4 * M, 8 * M},
     depth : {3 * M, 6 * M},
     total_height : {350 * CM, 700 * CM, 1050 * CM},
     damage_amount : {0 - 100, 0, 500, 1000},
     min_intact_height : {0, 290 * CM, 400 * CM},
     pointiness : {0, 500, 1000},
     resolution : {1000},
     seed : Seeds \cup {NoSeed},
     s0 : {5}]
    \cup
    [fn : {"generate_damage_profile"},
     width : {8 * M}, depth : {6 * M},
     total_height : {700 * CM},
     damage_amount : {1000},
     min_intact_height : {290 * CM},
     pointiness : {500},
     resolution : {200, 3000},
     seed : {NoSeed},
     s0 : StreamStates]

BuildDamageCalls ==
    [fn : {"build_damage"},
     width : {4 * M, 8 * M},
     depth : {6 * M},
     floors : 1..MaxFloors,
     floor_height : {250 * CM, 350 * CM},
     door_height : {200 * CM, 240 * CM, 350 * CM},
     enable_damage : BOOLEAN,
     damage_amount : {0, 300, 1000},
     damage_pointiness : {0, 500, 1000},
     damage_resolution : {1000},
     seed : Seeds]

InitDamage ==
    /\ BuildIdle
    /\ call \in DamageCalls \cup BuildDamageCalls
    /\ result = NoResult

CallGenerateDamageProfile ==
    /\ call.fn = "generate_damage_profile"
    /\ result.kind = "none"
    /\ result' = [kind |-> "profile",
                  profile |-> generate_damage_profile(
                      call.width, call.depth, call.total_height,
                      call.damage_amount, call.min_intact_height,
                      call.pointiness, call.resolution, call.seed,
                      call.s0).profile]
    /\ UNCHANGED <<call, buildVars>>

CallBuildDamage ==
    /\ call.fn = "build_damage"
    /\ result.kind = "none"
    /\ result' = [kind |-> "build_damage", out |-> BuildDamage(call, 5)]
    /\ UNCHANGED <<call, buildVars>>

NextDamage == CallGenerateDamageProfile \/ CallBuildDamage

SpecDamage == InitDamage /\ [][NextDamage]_vars

ProfileWalls(pr) == <<pr.front, pr.back, pr.left, pr.right>>

\* every sample height of the four walls of a profile
SampleHeights(pr) ==
    UNION {{ProfileWalls(pr)[j][i][2] : i \in 1..Len(ProfileWalls(pr)[j])} :
              j \in 1..4}

DamageReturned == call.fn = "generate_damage_profile" /\ result.kind = "profile"

\* C7 as stated: for every call of generate_damage_profile, whatever
\* damage_amount, min_intact_height and total_height are, the returned
\* min_height is at most every sample height and at least min_intact_height.
C7_Original ==
    DamageReturned =>
        /\ \A h \in SampleHeights(result.profile) : result.profile.min_height <= h
        /\ result.profile.min_height >= call.min_intact_height

\* C7 amended: the returned min_height is at most every sample height of
\* the four walls; it is at least min_intact_height when damage_amount > 0
\* or min_intact_height <= total_height, and for damage_amount <= 0 it is
\* total_height whatever min_intact_height is.
C7_DamageMonotonicity ==
    DamageReturned =>
        /\ \A h \in SampleHeights(result.profile) : result.profile.min_height <= h
        /\ (call.damage_amount > 0 \/ call.min_intact_height <= call.total_height)
              => result.profile.min_height >= call.min_intact_height
        /\ call.damage_amount <= 0
              => result.profile.min_height = call.total_height

\* a damaged profile whose lowest sample was held at min_intact_height while
\* another sample stayed above it
C7_Witness ==
    /\ DamageReturned
    /\ call.damage_amount > 0
    /\ call.min_intact_height > MulK(call.total_height, 100)
    /\ result.profile.min_height = call.min_intact_height
    /\ \E h \in SampleHeights(result.profile) : h > result.profile.min_height

BuildDamageReturned == call.fn = "build_damage" /\ result.kind = "build_damage"

\* C8: with enable_damage and damage_amount = 1.0 on a building of at least
\* two floors, the number of floors built with full walls is at least 1 and
\* less than floors, and equals max(1, floor(min_height / floor_height)), for
\* every outcome of the draws.
C8_IntactFloors ==
    (/\ BuildDamageReturned
     /\ call.enable_damage
     /\ call.damage_amount = 1000
     /\ call.floors >= 2)
        => /\ result.out.intact_floors =
                  Max(1, IntDiv(result.out.damage_min_height, call.floor_height))
           /\ result.out.intact_floors >= 1
           /\ result.out.intact_floors < call.floors

\* the scenario of the spec (floors = 3, floor_height = 3.5, damage 1.0), with
\* the damage line below the first floor's ceiling: the ground floor is kept
\* only by the max(1, .)
C8_Witness ==
    /\ BuildDamageReturned
    /\ call.enable_damage
    /\ call.damage_amount = 1000
    /\ call.floors = 3
    /\ call.floor_height = 350 * CM
    /\ result.out.damage_min_height < call.floor_height
    /\ result.out.intact_floors = 1

\* C19 as stated: every sample height of every wall in a damage profile
\* generated with damage_amount > 0 lies in [absolute_min, total_height],
\* where absolute_min = max(min_intact_height, 0.1 * total_height), for
\* every min_intact_height build can pass (max(door_height + 0.5,
\* 0.8 * floor_height)) and every floor count.
C19_Original ==
    (BuildDamageReturned /\ call.enable_damage /\ call.damage_amount > 0) =>
        LET total_height == call.floors * call.floor_height
            absolute_min ==
                Max(MinIntactHeight(call.door_height, call.floor_height),
                    MulK(total_height, 100))
        IN  \A h \in SampleHeights(result.out.damage_profile) :
                absolute_min <= h /\ h <= total_height

-----------------------------------------------------------------------------
(* mesh_builder.py: WallSegment and _add_windows_to_wall.  A wall is its   *)
(* name, length, height, base_z and the sequence of its openings.          *)

\* sign of a number: the components of a normalized axis-parallel vector
Sgn(x) == IF x > 0 THEN 1 ELSE IF x < 0 THEN 0 - 1 ELSE 0

\* WallSegment.direction = (end - start).normalized(): the exterior walls
\* named front and back run along X, those named left and right along Y
WallDirection(name, from, to) ==
    IF name \in {"front", "back"} THEN <<Sgn(to - from), 0, 0>>
    ELSE <<0, Sgn(to - from), 0>>

\* the normal= argument of the exterior walls (lines 2055, 2064, 2074, 2083
\* and, for the walls of a patio floor, 1899-1999)
WallNormal(name) ==
    CASE name = "front" -> <<0, 0 - 1, 0>>
      [] name = "back" -> <<0, 1, 0>>
      [] name = "left" -> <<0 - 1, 0, 0>>
      [] OTHER -> <<1, 0, 0>>

\* WallSegment(start, end, height, base_z, normal): length is |end - start|
WallSegment(name, from, to, height, base_z) ==
    [name |-> name, length |-> Abs(to - from), height |-> height,
     base_z |-> base_z, openings |-> <<>>,
     direction |-> WallDirection(name, from, to), normal |-> WallNormal(name)]

\* WallSegment.add_opening
add_opening(wall, x_start, x_end, z_start, z_end, type) ==
    [wall EXCEPT !.openings = Append(@, [x_start |-> x_start, x_end |-> x_end,
                                          z_start |-> z_start, z_end |-> z_end,
                                          type |-> type])]

\* line 2135: edge_margin = max(0.3, spacing * 0.5)
EdgeMargin(spacing) == Max(30 * CM, spacing \div 2)

\* line 2138: available_length = wall_length - 2 * edge_margin
AvailableLength(wall_length, spacing) == wall_length - 2 * EdgeMargin(spacing)

\* lines 2145-2147: count = min(count, max(1, int((available + 0.3) / (w + 0.3))))
FittingCount_Uncapped(count, available_length, window_width) == count
FittingCount(count, available_length, window_width) ==
    Min(count, Max(1, IntDiv(available_length + 30 * CM, window_width + 30 * CM)))

\* lines 2156-2167: the gap before, between and after the windows
WindowGap(count, available_length, window_width) ==
    LET remaining_space == available_length - count * window_width
    IN  IF count = 1 THEN remaining_space \div 2
        ELSE remaining_space \div (count + 1)

\* lines 2184-2193: does the window overlap an opening the wall already has
OverlapsExisting_Never(openings, x_start, x_end, z_start, z_end) == FALSE
OverlapsExisting(openings, x_start, x_end, z_start, z_end) ==
    \E k \in 1..Len(openings) :
        /\ ~(x_end + 10 * CM <= openings[k].x_start
             \/ x_start - 10 * CM >= openings[k].x_end)
        /\ ~(z_end <= openings[k].z_start \/ z_start >= openings[k].z_end)

\* lines 2179-2196: windows i..count-1 are placed in turn on the wall
RECURSIVE PlaceWindows(_, _, _, _, _, _, _, _)
PlaceWindows(wall, i, count, edge_margin, gap, window_width, z_start, z_end) ==
    IF i >= count THEN wall
    ELSE LET x_start == edge_margin + gap + i * (window_width + gap)
             x_end == x_start + window_width
             placed == IF OverlapsExisting(wall.openings, x_start, x_end,
                                           z_start, z_end)
                       THEN wall
                       ELSE add_opening(wall, x_start, x_end, z_start, z_end,
                                        "window")
         IN  PlaceWindows(placed, i + 1, count, edge_margin, gap, window_width,
                          z_start, z_end)

\* _add_windows_to_wall(wall, count, window_width, window_height, spacing,
\* sill_height): the wall with the windows added
add_windows_to_wall(wall, count, window_width, window_height, spacing, sill_height) ==
    LET edge_margin == EdgeMargin(spacing)
        available_length == AvailableLength(wall.length, spacing)
        fitting == FittingCount(count, available_length, window_width)
        gap == WindowGap(fitting, available_length, window_width)
        z_start == sill_height
        fits == sill_height + window_height <= wall.height - 20 * CM
        z_end == IF fits THEN sill_height + window_height
                 ELSE wall.height - 20 * CM
    IN  IF count <= 0 THEN wall
        ELSE IF available_length < window_width THEN wall
        ELSE IF fitting <= 0 THEN wall
        ELSE IF ~fits /\ z_end <= z_start THEN wall
        ELSE PlaceWindows(wall, 0, fitting, edge_margin, gap, window_width,
                          z_start, z_end)

-----------------------------------------------------------------------------
(* operators.py: the parameter mapping handed to BuildingShellBuilder, with *)
(* the declared defaults.  Factors and offsets are in thousandths.          *)

DefaultParams ==
    [width |-> 8 * M, depth |-> 6 * M, floors |-> 2, floor_height |-> 350 * CM,
     wall_thickness |-> 25 * CM,
     window_width |-> 120 * CM, window_height |-> 140 * CM,
     windows_per_floor |-> 3, window_spacing |-> 80 * CM, sill_height |-> 90 * CM,
     window_sides |-> "ALL",
     ground_floor_windows |-> "STOREFRONT", ground_floor_window_count |-> 2,
     storefront_window_height |-> 220 * CM, storefront_window_width |-> 2 * M,
     storefront_sill_height |-> 30 * CM,
     door_width |-> 120 * CM, door_height |-> 240 * CM, front_door_offset |-> 100,
     back_exit |-> TRUE, back_door_offset |-> 500,
     flat_roof |-> TRUE, floor_slabs |-> TRUE,
     facade_pilasters |-> FALSE, roof_parapet |-> FALSE,
     auto_clean |-> TRUE, mark_uv_seams |-> TRUE,
     has_patio |-> FALSE, patio_side |-> "BACK", patio_size |-> 400,
     building_profile |-> "NONE", exterior_stairs |-> FALSE,
     interior_fill |-> "NONE", fill_floors |-> 1, rubble_density |-> 300,
     exterior_rubble |-> FALSE, exterior_rubble_piles |-> 4,
     rubble_spread |-> 2 * M,
     enable_damage |-> FALSE, damage_amount |-> 300,
     damage_pointiness |-> 500, damage_resolution |-> 1000,
     seed |-> 0,
     damage_min_height |-> NoValue]

\* build(), lines 789-809: the window parameters of floor floor_index
CurrentWindows(p, floor_index) ==
    IF floor_index = 0 /\ p.ground_floor_windows = "NONE"
    THEN [height |-> 0, sill |-> p.sill_height, width |-> p.window_width,
          count |-> 0]
    ELSE IF floor_index = 0
            /\ p.ground_floor_windows \in {"STOREFRONT", "STOREFRONT_WIDE"}
    THEN [height |-> p.storefront_window_height,
          sill |-> p.storefront_sill_height,
          width |-> p.storefront_window_width,
          count |-> p.ground_floor_window_count]
    ELSE [height |-> p.window_height, sill |-> p.sill_height,
          width |-> p.window_width, count |-> p.windows_per_floor]

\* lines 2098-2102 (and 2004-2008, interiors.py 82-86)
HasWindows(window_sides, side) ==
    CASE side = "front" ->
           window_sides \in {"ALL", "FRONT_BACK", "FRONT_SIDES", "FRONT_ONLY",
                             "FRONT_LEFT", "FRONT_RIGHT"}
      [] side = "back" ->
           window_sides \in {"ALL", "FRONT_BACK", "BACK_SIDES"}
      [] side = "left" ->
           window_sides \in {"ALL", "FRONT_SIDES", "FRONT_LEFT", "BACK_SIDES",
                             "SIDES_ONLY"}
      [] side = "right" ->
           window_sides \in {"ALL", "FRONT_SIDES", "FRONT_RIGHT", "BACK_SIDES",
                             "SIDES_ONLY"}

\* line 2113: side_windows = max(1, windows_per_floor // 2)
SideWindows(windows_per_floor) == Max(1, windows_per_floor \div 2)

\* lines 2104-2119: the windows of one wall, if its side has windows
WithWindows(wall, p, cw) ==
    IF HasWindows(p.window_sides, wall.name)
    THEN add_windows_to_wall(wall,
             IF wall.name \in {"front", "back"} THEN cw.count
             ELSE SideWindows(cw.count),
             cw.width, cw.height, p.window_spacing, cw.sill)
    ELSE wall

\* line 2089: door_x = front_door_offset * (width - door_width)
DoorX_Centered(offset, width, door_width) == (width - door_width) \div 2
DoorX(offset, width, door_width) == MulK(width - door_width, offset)

\* _build_floor_walls: the four walls of floor floor_index with their openings,
\* in the order they are built (front, back, left, right)
build_floor_walls(p, floor_index, floor_base_z, cw) ==
    LET front_wall == WallSegment("front", 0, p.width, p.floor_height, floor_base_z)
        back_wall == WallSegment("back", p.width, 0, p.floor_height, floor_base_z)
        left_wall == WallSegment("left", p.depth - p.wall_thickness,
                                 p.wall_thickness, p.floor_height, floor_base_z)
        right_wall == WallSegment("right", p.wall_thickness,
                                  p.depth - p.wall_thickness, p.floor_height,
                                  floor_base_z)
        door_x == DoorX(p.front_door_offset, p.width, p.door_width)
        back_door_x == DoorX(p.back_door_offset, p.width, p.door_width)
        front_door == IF floor_index = 0
                      THEN add_opening(front_wall, door_x, door_x + p.door_width,
                                       0, p.door_height, "door")
                      ELSE front_wall
        back_door == IF floor_index = 0 /\ p.back_exit
                     THEN add_opening(back_wall, back_door_x,
                                      back_door_x + p.door_width,
                                      0, p.door_height, "door")
                     ELSE back_wall
    IN  <<WithWindows(front_door, p, cw), WithWindows(back_door, p, cw),
          WithWindows(left_wall, p, cw), WithWindows(right_wall, p, cw)>>

\* _build_patio_floor_walls: the three walls of the top floor of a building
\* with a patio, in the order they are built
build_patio_floor_walls(p, floor_base_z, cw) ==
    LET wt == p.wall_thickness
        h == p.floor_height
        walls ==
          CASE p.patio_side = "BACK" ->
                 LET divider_y == MulK(p.depth, 1000 - p.patio_size)
                 IN  <<WallSegment("front", 0, p.width, h, floor_base_z),
                       WallSegment("left", divider_y - wt, wt, h, floor_base_z),
                       WallSegment("right", wt, divider_y - wt, h, floor_base_z)>>
            [] p.patio_side = "FRONT" ->
                 LET divider_y == MulK(p.depth, p.patio_size)
                 IN  <<WallSegment("back", p.width, 0, h, floor_base_z),
                       WallSegment("left", p.depth - wt, divider_y + wt, h, floor_base_z),
                       WallSegment("right", divider_y + wt, p.depth - wt, h, floor_base_z)>>
            [] p.patio_side = "LEFT" ->
                 LET divider_x == MulK(p.width, p.patio_size)
                 IN  <<WallSegment("right", wt, p.depth - wt, h, floor_base_z),
                       WallSegment("front", divider_x + wt, p.width, h, floor_base_z),
                       WallSegment("back", p.width, divider_x + wt, h, floor_base_z)>>
            [] OTHER ->
                 LET divider_x == MulK(p.width, 1000 - p.patio_size)
                 IN  <<WallSegment("left", p.depth - wt, wt, h, floor_base_z),
                       WallSegment("front", 0, divider_x - wt, h, floor_base_z),
                       WallSegment("back", divider_x - wt, 0, h, floor_base_z)>>
    IN  [k \in 1..3 |-> WithWindows(walls[k], p, cw)]

\* interiors.py, get_window_positions.calc_window_positions(wall_length,
\* count) for the given window_width and window_spacing: the (start, end)
\* pairs of the windows
calc_window_positions(wall_length, count, window_width, window_spacing) ==
    LET edge_margin == Max(30 * CM, window_spacing \div 2)
        available_length == wall_length - 2 * edge_margin
        fitting == Min(count, Max(1, IntDiv(available_length + 30 * CM,
                                            window_width + 30 * CM)))
        remaining == available_length - fitting * window_width
        gap == IF fitting >= 1 THEN remaining \div (fitting + 1)
               ELSE remaining \div 2
    IN  IF count <= 0 THEN <<>>
        ELSE IF available_length < window_width THEN <<>>
        ELSE IF fitting <= 0 THEN <<>>
        ELSE [k \in 1..fitting |->
                 <<edge_margin + gap + (k - 1) * (window_width + gap),
                   edge_margin + gap + (k - 1) * (window_width + gap)
                       + window_width>>]

-----------------------------------------------------------------------------
(* Exterior walls: direct calls of _add_windows_to_wall on an empty wall,   *)
(* of calc_window_positions, of _build_floor_walls and of                   *)
(* _build_patio_floor_walls.                                                *)

\* operators.py: windows_per_floor is at most 10
MaxWindowsPerFloor == 10

WindowCalls ==
    [fn : {"add_windows_to_wall", "calc_window_positions"},
     wall_length : {150 * CM, 2 * M, 4 * M, 550 * CM, 8 * M, 20 * M},
     count : 1..MaxWindowsPerFloor,
     window_width : {40 * CM, 120 * CM, 2 * M, 4 * M},
     spacing : {20 * CM, 80 * CM, 3 * M},
     window_height : {140 * CM},
     sill_height : {90 * CM},
     wall_height : {350 * CM}]
    \cup
    [fn : {"add_windows_to_wall"},
     wall_length : {4 * M},
     count : {5},
     window_width : {120 * CM},
     spacing : {80 * CM},
     window_height : {40 * CM, 3 * M},
     sill_height : {30 * CM, 2 * M},
     wall_height : {250 * CM, 6 * M}]

FloorWallParams ==
    {[DefaultParams EXCEPT !.width = w, !.door_width = dw,
                           !.front_door_offset = fo, !.back_door_offset = bo,
                           !.back_exit = be, !.window_sides = ws,
                           !.ground_floor_windows = gw, !.sill_height = sh,
                           !.door_height = dh, !.windows_per_floor = n,
                           !.storefront_window_width = sw] :
        w \in {2 * M, 8 * M}, dw \in {80 * CM, 3 * M},
        fo \in {0, 100, 500, 1000}, bo \in {0, 500},
        be \in BOOLEAN, ws \in {"ALL", "FRONT_ONLY", "SIDES_ONLY"},
        gw \in {"NONE", "STOREFRONT", "REGULAR"}, sh \in {90 * CM, 2 * M},
        dh \in {2 * M, 240 * CM}, n \in {0, 3, MaxWindowsPerFloor},
        sw \in {1 * M, 2 * M}}

FloorWallCalls ==
    [fn : {"build_floor_walls"}, p : FloorWallParams, floor_index : {0, 1}]

PatioWallParams ==
    {[DefaultParams EXCEPT !.width = w, !.depth = d, !.wall_thickness = wt,
                           !.patio_side = side, !.patio_size = size,
                           !.windows_per_floor = n, !.has_patio = TRUE] :
        w \in {2 * M, 8 * M}, d \in {2 * M, 6 * M}, wt \in {25 * CM, 1 * M},
        side \in {"BACK", "FRONT", "LEFT", "RIGHT"},
        size \in {200, 400, 600}, n \in {0, 3, MaxWindowsPerFloor}}

PatioWallCalls ==
    [fn : {"build_patio_floor_walls"}, p : PatioWallParams, floor_index : {1}]

InitWalls ==
    /\ BuildIdle
    /\ call \in WindowCalls \cup FloorWallCalls \cup PatioWallCalls
    /\ result = NoResult

CallAddWindowsToWall ==
    /\ call.fn = "add_windows_to_wall"
    /\ result.kind = "none"
    /\ result' = [kind |-> "walls",
                  walls |-> <<add_windows_to_wall(
                      WallSegment("front", 0, call.wall_length,
                                  call.wall_height, 0),
                      call.count, call.window_width, call.window_height,
                      call.spacing, call.sill_height)>>]
    /\ UNCHANGED <<call, buildVars>>

CallCalcWindowPositions ==
    /\ call.fn = "calc_window_positions"
    /\ result.kind = "none"
    /\ result' = [kind |-> "positions",
                  positions |-> calc_window_positions(
                      call.wall_length, call.count, call.window_width,
                      call.spacing)]
    /\ UNCHANGED <<call, buildVars>>

CallBuildFloorWalls ==
    /\ call.fn = "build_floor_walls"
    /\ result.kind = "none"
    /\ result' = [kind |-> "walls",
                  walls |-> build_floor_walls(
                      call.p, call.floor_index,
                      call.floor_index * call.p.floor_height,
                      CurrentWindows(call.p, call.floor_index))]
    /\ UNCHANGED <<call, buildVars>>

CallBuildPatioFloorWalls ==
    /\ call.fn = "build_patio_floor_walls"
    /\ result.kind = "none"
    /\ result' = [kind |-> "walls",
                  walls |-> build_patio_floor_walls(
                      call.p, call.floor_index * call.p.floor_height,
                      CurrentWindows(call.p, call.floor_index))]
    /\ UNCHANGED <<call, buildVars>>

NextWalls ==
    \/ CallAddWindowsToWall
    \/ CallCalcWindowPositions
    \/ CallBuildFloorWalls
    \/ CallBuildPatioFloorWalls

SpecWalls == InitWalls /\ [][NextWalls]_vars

WallsReturned == result.kind = "walls"

\* two openings share a point: the closed rectangles intersect
RectanglesMeet(a, b) ==
    /\ a.x_start <= b.x_end /\ b.x_start <= a.x_end
    /\ a.z_start <= b.z_end /\ b.z_start <= a.z_end

\* two openings overlap in a region of positive area
RectanglesOverlap(a, b) ==
    /\ a.x_start < b.x_end /\ b.x_start < a.x_end
    /\ a.z_start < b.z_end /\ b.z_start < a.z_end

\* a window standing directly on top of a door: the only openings that meet
\* do so along the edge z = door_height
WindowOnDoorEdge(a, b) ==
    \/ a.type = "door" /\ b.type = "window" /\ b.z_start = a.z_end
    \/ b.type = "door" /\ a.type = "window" /\ a.z_start = b.z_end

\* the opening o lies within the wall segment seg, in the wall's local
\* coordinates
OpeningInside(seg, o) ==
    /\ 0 <= o.x_start /\ o.x_start <= o.x_end /\ o.x_end <= seg.length
    /\ 0 <= o.z_start /\ o.z_start <= o.z_end /\ o.z_end <= seg.height

\* C11 as stated: every opening added to a wall segment that was built
\* (doors and windows) lies within [0, wall length] x [0, wall height] in
\* the wall's local coordinates, for all parameter values in their declared
\* ranges.
C11_Original ==
    WallsReturned =>
        \A k \in 1..Len(result.walls) :
            \A n \in 1..Len(result.walls[k].openings) :
                OpeningInside(result.walls[k], result.walls[k].openings[n])

\* C3 as stated: on every exterior wall that was built, no two openings have
\* intersecting closed rectangles [x_start, x_end] x [z_start, z_end].
C3_Original ==
    WallsReturned =>
        \A w \in 1..Len(result.walls) :
            \A i, j \in 1..Len(result.walls[w].openings) :
                i < j => ~RectanglesMeet(result.walls[w].openings[i],
                                         result.walls[w].openings[j])

\* C3 amended: on every exterior wall that was built, no two openings overlap
\* in a region of positive area, and two openings share a point only when a
\* window whose sill is at door_height stands on the top edge of a door.
C3_OpeningNonOverlap ==
    WallsReturned =>
        \A w \in 1..Len(result.walls) :
            \A i, j \in 1..Len(result.walls[w].openings) :
                i < j =>
                    LET a == result.walls[w].openings[i]
                        b == result.walls[w].openings[j]
                    IN  /\ ~RectanglesOverlap(a, b)
                        /\ RectanglesMeet(a, b) => WindowOnDoorEdge(a, b)

\* a ground-floor front wall that kept its door and at least one window while
\* a window that would have crossed the door was left out
C3_Witness ==
    /\ WallsReturned
    /\ call.fn = "build_floor_walls"
    /\ call.floor_index = 0
    /\ LET front == result.walls[1]
           cw == CurrentWindows(call.p, 0)
           fitting == FittingCount(cw.count,
                          AvailableLength(front.length, call.p.window_spacing),
                          cw.width)
       IN  /\ front.openings[1].type = "door"
           /\ Len(front.openings) >= 2
           /\ Len(front.openings) - 1 < fitting

\* the (x_start, x_end) pairs returned by the opening layout solver
SolverReturned ==
    /\ call.fn \in {"add_windows_to_wall", "calc_window_positions"}
    /\ result.kind # "none"

SolverPositions ==
    IF result.kind = "positions" THEN result.positions
    ELSE [k \in 1..Len(result.walls[1].openings) |->
             <<result.walls[1].openings[k].x_start,
               result.walls[1].openings[k].x_end>>]

\* C10: on a wall of length L with no other openings, for count N >= 1, width
\* W and spacing S, with edge_margin = max(0.3, S/2) and available =
\* L - 2 * edge_margin: nothing is placed when available < W; otherwise
\* n = min(N, floor((available + 0.3) / (W + 0.3))) openings are placed,
\* opening i at [edge_margin + gap + i * (W + gap), + W] with
\* gap = (available - n * W) / (n + 1); they are evenly spaced, pairwise
\* disjoint and inside [edge_margin, L - edge_margin].
C10_OpeningLayout ==
    SolverReturned =>
        LET L == call.wall_length
            N == call.count
            W == call.window_width
            S == call.spacing
            edge_margin == Max(30 * CM, S \div 2)
            available == L - 2 * edge_margin
            n == Min(N, (available + 30 * CM) \div (W + 30 * CM))
            gap == (available - n * W) \div (n + 1)
            pos == SolverPositions
        IN  IF available < W THEN pos = <<>>
            ELSE /\ Len(pos) = n
                 /\ gap * (n + 1) = available - n * W
                 /\ \A i \in 0..(n - 1) :
                        /\ pos[i + 1][1] = edge_margin + gap + i * (W + gap)
                        /\ pos[i + 1][2] = pos[i + 1][1] + W
                 /\ pos[1][1] - edge_margin = gap
                 /\ (L - edge_margin) - pos[n][2] = gap
                 /\ \A i \in 1..(n - 1) :
                        /\ pos[i + 1][1] - pos[i][2] = gap
                        /\ pos[i][2] < pos[i + 1][1]
                 /\ \A i \in 1..n :
                        edge_margin <= pos[i][1] /\ pos[i][2] <= L - edge_margin

\* the example of the claim: N = 5, L = 4, W = 1.2, S = 0.8 places two
\* openings, fewer than the five requested
C10_Witness ==
    /\ SolverReturned
    /\ call.fn = "add_windows_to_wall"
    /\ call.count = 5
    /\ call.wall_length = 4 * M
    /\ call.window_width = 120 * CM
    /\ call.spacing = 80 * CM
    /\ Len(SolverPositions) = 2
    /\ SolverPositions[1][2] < SolverPositions[2][1]

\* the windows of a wall, in the order they were placed
WindowsOf(wall) == SelectSeq(wall.openings, LAMBDA o : o.type = "window")

\* C25 as stated: adjacent windows placed on one wall by the opening layout
\* are separated by a gap of at least 0.3, the fixed minimum gap between
\* windows, for every wall length, count, window width and spacing for which
\* at least two windows are placed.
C25_Original ==
    WallsReturned =>
        \A w \in 1..Len(result.walls) :
            LET windows == WindowsOf(result.walls[w])
            IN  \A k \in 1..(Len(windows) - 1) :
                    windows[k + 1].x_start - windows[k].x_end >= 30 * CM

-----------------------------------------------------------------------------
(* interiors.py: architectural constants and helper functions.  A point is  *)
(* <<x, y>>, a wall definition its start and end points, a rectangle its    *)
(* x_min, y_min, x_max and y_max.                                           *)

STAIR_ZONE_WIDTH == 120 * CM
STAIR_ZONE_DEPTH == 320 * CM
MIN_ROOM_SIZE == 250 * CM
MIN_WALL_OFFSET == 150 * CM
DOOR_WIDTH == 90 * CM
WALL_CLEARANCE == 30 * CM

\* room_width * room_depth in square centimetres
AreaCm2(room_width, room_depth) == (room_width \div CM) * (room_depth \div CM)

\* MIN_ROOM_AREA = 6.0 square metres, in square centimetres
MIN_ROOM_AREA == 6 * 100 * 100

\* get_interior_bounds(width, depth, wall_thickness)
get_interior_bounds(width, depth, wall_thickness) ==
    [x_min |-> wall_thickness, y_min |-> wall_thickness,
     x_max |-> width - wall_thickness, y_max |-> depth - wall_thickness]

\* get_window_positions(width, depth, params): for each exterior wall the
\* (start, end) pairs it takes the wall's openings to be at
get_window_positions(width, depth, p) ==
    LET front_back_positions ==
            calc_window_positions(width, p.windows_per_floor, p.window_width,
                                  p.window_spacing)
        door_x == MulK(width - p.door_width, p.front_door_offset)
        back_door_x == MulK(width - p.door_width, p.back_door_offset)
        side_positions ==
            calc_window_positions(depth, Max(1, p.windows_per_floor \div 2),
                                  p.window_width, p.window_spacing)
    IN  [front |-> (IF HasWindows(p.window_sides, "front")
                    THEN front_back_positions ELSE <<>>)
                   \o <<<<door_x, door_x + p.door_width>>>>,
         back |-> (IF HasWindows(p.window_sides, "back")
                   THEN front_back_positions ELSE <<>>)
                  \o (IF p.back_exit
                      THEN <<<<back_door_x, back_door_x + p.door_width>>>>
                      ELSE <<>>),
         left |-> IF HasWindows(p.window_sides, "left")
                  THEN side_positions ELSE <<>>,
         right |-> IF HasWindows(p.window_sides, "right")
                   THEN side_positions ELSE <<>>]

\* is_position_blocked_by_opening(pos, wall, window_positions)
is_position_blocked_by_opening(pos, wall, window_positions) ==
    \E k \in 1..Len(window_positions[wall]) :
        /\ window_positions[wall][k][1] - WALL_CLEARANCE <= pos
        /\ pos <= window_positions[wall][k][2] + WALL_CLEARANCE

\* sorted(openings, key=lambda x: x[0]): a stable sort by the start
SortedByStart(openings) ==
    LET n == Len(openings)
        Before(j, k) == \/ openings[j][1] < openings[k][1]
                        \/ openings[j][1] = openings[k][1] /\ j < k
        Place(k) == Cardinality({j \in 1..n : Before(j, k)}) + 1
    IN  [r \in 1..n |-> openings[CHOOSE k \in 1..n : Place(k) = r]]

\* find_safe_wall_attachment lines 191-205: the safe zones, as (start, end)
\* pairs in the order they are appended
SafeZones(openings, min_pos, max_pos) ==
    LET sorted == SortedByStart(openings)
        n == Len(sorted)
        \* current_pos after k openings
        Current[k \in 0..n] ==
            IF k = 0 THEN min_pos
            ELSE Max(Current[k - 1], sorted[k][2] + WALL_CLEARANCE)
        Gap(k) == IF Current[k - 1] < sorted[k][1] - WALL_CLEARANCE
                  THEN <<<<Current[k - 1], sorted[k][1] - WALL_CLEARANCE>>>>
                  ELSE <<>>
        Gaps[k \in 0..n] == IF k = 0 THEN <<>> ELSE Gaps[k - 1] \o Gap(k)
    IN  Gaps[n] \o (IF Current[n] < max_pos
                    THEN <<<<Current[n], max_pos>>>> ELSE <<>>)

\* find_safe_wall_attachment(target_pos, wall, window_positions, min_pos,
\* max_pos); NoValue stands for None
find_safe_wall_attachment(target_pos, wall, window_positions, min_pos, max_pos) ==
    LET safe_zones == SafeZones(window_positions[wall], min_pos, max_pos)
        \* lines 211-222: the zone edges in the order they are compared
        edges == [k \in 1..(2 * Len(safe_zones)) |->
                     safe_zones[(k + 1) \div 2][IF k % 2 = 1 THEN 1 ELSE 2]]
        Dist(k) == Abs(edges[k] - target_pos)
        \* dist < best_dist: the first of the nearest edges is kept
        best == CHOOSE k \in 1..Len(edges) :
                    /\ \A j \in 1..Len(edges) : Dist(k) <= Dist(j)
                    /\ \A j \in 1..(k - 1) : Dist(j) > Dist(k)
    IN  IF ~is_position_blocked_by_opening(target_pos, wall, window_positions)
        THEN target_pos
        ELSE IF \E k \in 1..Len(safe_zones) :
                    safe_zones[k][1] <= target_pos /\ target_pos <= safe_zones[k][2]
        THEN target_pos
        ELSE IF safe_zones = <<>> THEN NoValue
        ELSE edges[best]

\* validate_room_size(room_width, room_depth)
validate_room_size_always(room_width, room_depth) == TRUE
validate_room_size(room_width, room_depth) ==
    /\ ~(room_width < MIN_ROOM_SIZE \/ room_depth < MIN_ROOM_SIZE)
    /\ ~(AreaCm2(room_width, room_depth) < MIN_ROOM_AREA)

\* calculate_optimal_divider_position(axis_min, axis_max, target_ratio) with
\* min_room_size = MIN_ROOM_SIZE; target_offset is axis_length * target_ratio.
\* NoValue stands for None.
calculate_optimal_divider_position(axis_min, axis_max, target_offset) ==
    IF axis_max - axis_min < MIN_ROOM_SIZE * 2 THEN NoValue
    ELSE Max(axis_min + MIN_ROOM_SIZE,
             Min(axis_max - MIN_ROOM_SIZE, axis_min + target_offset))

NoWall == [start |-> <<NoValue, NoValue>>, end |-> <<NoValue, NoValue>>]

WallDef(x1, y1, x2, y2) == [start |-> <<x1, y1>>, end |-> <<x2, y2>>]

\* (end - start).length of a wall that runs along one axis
WallLength(w) == Abs(w.end[1] - w.start[1]) + Abs(w.end[2] - w.start[2])

\* validate_and_adjust_cardinal_wall: the straightened wall, or NoWall where
\* the function returns (None, None)
validate_and_adjust_cardinal_wall(w, width, depth, wall_thickness, window_positions) ==
    LET dx == Abs(w.end[1] - w.start[1])
        dy == Abs(w.end[2] - w.start[2])
        b == get_interior_bounds(width, depth, wall_thickness)
        wall_y == (w.start[2] + w.end[2]) \div 2
        wall_x == (w.start[1] + w.end[1]) \div 2
    IN  IF dx > 10 * CM /\ dy > 10 * CM THEN NoWall
        ELSE IF dx > dy
        THEN IF \/ /\ Abs(w.start[1] - b.x_min) < CM
                   /\ is_position_blocked_by_opening(wall_y, "left", window_positions)
                \/ /\ Abs(w.end[1] - b.x_max) < CM
                   /\ is_position_blocked_by_opening(wall_y, "right", window_positions)
             THEN NoWall
             ELSE WallDef(w.start[1], wall_y, w.end[1], wall_y)
        ELSE IF \/ /\ Abs(w.start[2] - b.y_min) < CM
                   /\ is_position_blocked_by_opening(wall_x, "front", window_positions)
                \/ /\ Abs(w.end[2] - b.y_max) < CM
                   /\ is_position_blocked_by_opening(wall_x, "back", window_positions)
             THEN NoWall
             ELSE WallDef(wall_x, w.start[2], wall_x, w.end[2])

NoZone == [x_min |-> NoValue, y_min |-> NoValue, x_max |-> NoValue, y_max |-> NoValue]

\* get_stair_zone(width, depth, wall_thickness, position)
get_stair_zone(width, depth, wall_thickness, position) ==
    LET b == get_interior_bounds(width, depth, wall_thickness)
        interior_width == b.x_max - b.x_min
        interior_depth == b.y_max - b.y_min
        zone_width == Min(STAIR_ZONE_WIDTH, MulK(interior_width, 250))
        zone_depth == Min(STAIR_ZONE_DEPTH, MulK(interior_depth, 400))
        wall_margin == 30 * CM
        x_min == IF position \in {"back_right", "front_right"}
                 THEN b.x_max - wall_margin - zone_width
                 ELSE IF position \in {"back_left", "front_left"}
                 THEN b.x_min + wall_margin
                 ELSE b.x_min + (interior_width - zone_width) \div 2
        y_min == IF position \in {"front_right", "front_left", "front_center"}
                 THEN b.y_min + wall_margin
                 ELSE b.y_max - wall_margin - zone_depth
    IN  [x_min |-> x_min, y_min |-> y_min,
         x_max |-> x_min + zone_width, y_max |-> y_min + zone_depth]

\* get_floor_opening(width, depth, wall_thickness, stair_position)
get_floor_opening(width, depth, wall_thickness, stair_position) ==
    LET stair_zone == get_stair_zone(width, depth, wall_thickness, stair_position)
        margin == 10 * CM
    IN  [x_min |-> stair_zone.x_min + margin, y_min |-> stair_zone.y_min + margin,
         x_max |-> stair_zone.x_max - margin, y_max |-> stair_zone.y_max - margin]

\* walls_overlap_zone(wall_start, wall_end, zone)
walls_overlap_zone(w, zone) ==
    /\ Min(w.start[1], w.end[1]) < zone.x_max
    /\ Max(w.start[1], w.end[1]) > zone.x_min
    /\ Min(w.start[2], w.end[2]) < zone.y_max
    /\ Max(w.start[2], w.end[2]) > zone.y_min

\* the element w, if it is longer than 0.3
IfLongEnough(w) == IF WallLength(w) > 30 * CM THEN <<w>> ELSE <<>>

\* adjust_wall_for_stair_zone(wall_def, stair_zone): the list of the wall
\* segments left outside the stair zone
adjust_wall_for_stair_zone(w, stair_zone) ==
    IF ~walls_overlap_zone(w, stair_zone) THEN <<w>>
    ELSE IF Abs(w.end[1] - w.start[1]) > Abs(w.end[2] - w.start[2])
    THEN LET wall_y == w.start[2]
         IN  IF stair_zone.y_min <= wall_y /\ wall_y <= stair_zone.y_max
             THEN (IF w.start[1] < stair_zone.x_min
                   THEN IfLongEnough(WallDef(w.start[1], w.start[2],
                                             stair_zone.x_min, wall_y))
                   ELSE <<>>)
                  \o (IF w.end[1] > stair_zone.x_max
                      THEN IfLongEnough(WallDef(stair_zone.x_max, wall_y,
                                                w.end[1], w.end[2]))
                      ELSE <<>>)
             ELSE <<w>>
    ELSE LET wall_x == w.start[1]
         IN  IF stair_zone.x_min <= wall_x /\ wall_x <= stair_zone.x_max
             THEN (IF w.start[2] < stair_zone.y_min
                   THEN IfLongEnough(WallDef(w.start[1], w.start[2],
                                             wall_x, stair_zone.y_min))
                   ELSE <<>>)
                  \o (IF w.end[2] > stair_zone.y_max
                      THEN IfLongEnough(WallDef(wall_x, stair_zone.y_max,
                                                w.end[1], w.end[2]))
                      ELSE <<>>)
             ELSE <<w>>

\* stair_position of the profile classes
StairPosition(profile) ==
    CASE profile = "WAREHOUSE" -> "back_left"
      [] profile = "RESIDENTIAL" -> "back_center"
      [] profile = "BAR" -> "back_left"
      [] OTHER -> "back_right"

\* BuildingProfile.get_stair_zone(width, depth, params)
ProfileStairZone(profile, width, depth, p) ==
    get_stair_zone(width, depth, p.wall_thickness, StairPosition(profile))

\* BuildingProfile.get_floor_opening(width, depth, params)
ProfileFloorOpening(profile, width, depth, p) ==
    get_floor_opening(width, depth, p.wall_thickness, StairPosition(profile))

Room(name, x_min, y_min, x_max, y_max) ==
    [name |-> name, x_min |-> x_min, y_min |-> y_min,
     x_max |-> x_max, y_max |-> y_max]

-----------------------------------------------------------------------------
(* interiors.py: the building profiles.  A layout is its list of rooms and  *)
(* its list of wall definitions.                                            *)

EmptyLayout == [rooms |-> <<>>, walls |-> <<>>]

\* the single room a profile falls back to: the whole interior
WholeInterior(name, b) ==
    [rooms |-> <<Room(name, b.x_min, b.y_min, b.x_max, b.y_max)>>, walls |-> <<>>]

\* StorefrontProfile.get_ground_floor_layout
StorefrontGroundFloor(width, depth, p) ==
    LET b == get_interior_bounds(width, depth, p.wall_thickness)
        interior_width == b.x_max - b.x_min
        interior_depth == b.y_max - b.y_min
        target_back_depth ==
            IF p.floors > 1
            THEN Max(MulK(interior_depth, 350), STAIR_ZONE_DEPTH + 1 * M)
            ELSE MulK(interior_depth, 250)
        divider_y == calculate_optimal_divider_position(
                         b.y_min, b.y_max, interior_depth - target_back_depth)
        front_room_depth == divider_y - b.y_min
        back_room_depth == b.y_max - divider_y
        door_x == b.x_min + MulK(interior_width, 300)
        right_wall == WallDef(door_x + DOOR_WIDTH, divider_y, b.x_max, divider_y)
    IN  IF ~validate_room_size(interior_width, interior_depth)
        THEN WholeInterior("open_retail", b)
        ELSE IF divider_y = NoValue THEN WholeInterior("open_retail", b)
        ELSE IF \/ ~validate_room_size(interior_width, front_room_depth)
                \/ ~validate_room_size(interior_width, back_room_depth)
        THEN WholeInterior("open_retail", b)
        ELSE [rooms |-> <<Room("retail_front", b.x_min, b.y_min, b.x_max, divider_y),
                          Room("back_room", b.x_min, divider_y, b.x_max, b.y_max)>>,
              walls |->
                  (IF door_x > b.x_min + MIN_WALL_OFFSET
                   THEN <<WallDef(b.x_min, divider_y, door_x, divider_y)>>
                   ELSE <<>>)
                  \o (IF p.floors > 1
                      THEN adjust_wall_for_stair_zone(right_wall,
                               ProfileStairZone("STOREFRONT", width, depth, p))
                      ELSE <<right_wall>>)]

\* StorefrontProfile.get_upper_floor_layout
StorefrontUpperFloor(width, depth, p) ==
    LET b == get_interior_bounds(width, depth, p.wall_thickness)
        interior_width == b.x_max - b.x_min
        interior_depth == b.y_max - b.y_min
        stair_zone == ProfileStairZone("STOREFRONT", width, depth, p)
        target_ratio == IF stair_zone.x_min > b.x_min + MIN_ROOM_SIZE
                        THEN 600 ELSE 500
        divider_x == calculate_optimal_divider_position(
                         b.x_min, b.x_max, MulK(interior_width, target_ratio))
        at40 == b.y_min + MulK(interior_depth, 400)
        raised == IF at40 - b.y_min < MIN_WALL_OFFSET
                  THEN b.y_min + MIN_WALL_OFFSET ELSE at40
        door_y == IF b.y_max - (raised + DOOR_WIDTH) < MIN_WALL_OFFSET
                  THEN b.y_max - DOOR_WIDTH - MIN_WALL_OFFSET ELSE raised
    IN  IF ~validate_room_size(interior_width, interior_depth) THEN EmptyLayout
        ELSE IF ~(interior_width > MIN_ROOM_SIZE * 2 + 1 * M) THEN EmptyLayout
        ELSE IF divider_x = NoValue THEN EmptyLayout
        ELSE IF \/ ~validate_room_size(divider_x - b.x_min, interior_depth)
                \/ ~validate_room_size(b.x_max - divider_x, interior_depth)
        THEN EmptyLayout
        ELSE [rooms |-> <<Room("living", b.x_min, b.y_min, divider_x, b.y_max),
                          Room("bedroom", divider_x, b.y_min, b.x_max, b.y_max)>>,
              walls |->
                  adjust_wall_for_stair_zone(
                      WallDef(divider_x, b.y_min, divider_x, door_y), stair_zone)
                  \o adjust_wall_for_stair_zone(
                      WallDef(divider_x, door_y + DOOR_WIDTH, divider_x, b.y_max),
                      stair_zone)]

\* WarehouseProfile.get_ground_floor_layout
WarehouseGroundFloor(width, depth, p) ==
    LET b == get_interior_bounds(width, depth, p.wall_thickness)
        interior_width == b.x_max - b.x_min
        interior_depth == b.y_max - b.y_min
        min_office_size == Max(MIN_ROOM_SIZE, 250 * CM)
        remaining_width == interior_width - min_office_size
        office_width == Max(min_office_size, Min(350 * CM, MulK(interior_width, 300)))
        office_depth == Max(min_office_size, Min(350 * CM, MulK(interior_depth, 300)))
        office_x_max == b.x_min + office_width
        office_y_max == b.y_min + office_depth
    IN  IF /\ interior_width > min_office_size * 2 + 1 * M
           /\ interior_depth > min_office_size * 2 + 1 * M
           /\ validate_room_size(remaining_width, interior_depth)
        THEN [rooms |-> <<Room("warehouse_floor", office_x_max, b.y_min,
                               b.x_max, b.y_max),
                          Room("office", b.x_min, b.y_min, office_x_max,
                               office_y_max)>>,
              walls |-> <<WallDef(office_x_max, b.y_min,
                                  office_x_max, office_y_max - DOOR_WIDTH),
                          WallDef(b.x_min, office_y_max,
                                  office_x_max, office_y_max)>>]
        ELSE WholeInterior("warehouse_floor", b)

\* ResidentialProfile.hallway_width
HallwayWidth == 140 * CM

\* ResidentialProfile._generate_floor_layout, lines 1016-1059: the hallway
\* wall segments beside room i
HallwayWalls(i, room_depth, y0, hallway_y_max, hallway_x_left, hallway_x_right) ==
    LET y_start == y0 + i * room_depth
        y_end == Min(y_start + room_depth, hallway_y_max)
        door_y == y_start + (y_end - y_start) \div 2 - DOOR_WIDTH \div 2
        before == door_y - y_start > MIN_WALL_OFFSET
        after == y_end - (door_y + DOOR_WIDTH) > MIN_WALL_OFFSET
    IN  (IF before THEN <<WallDef(hallway_x_left, y_start, hallway_x_left, door_y)>>
         ELSE <<>>)
        \o (IF after THEN <<WallDef(hallway_x_left, door_y + DOOR_WIDTH,
                                    hallway_x_left, y_end)>>
            ELSE <<>>)
        \o (IF before THEN <<WallDef(hallway_x_right, y_start, hallway_x_right, door_y)>>
            ELSE <<>>)
        \o (IF after THEN <<WallDef(hallway_x_right, door_y + DOOR_WIDTH,
                                    hallway_x_right, y_end)>>
            ELSE <<>>)

\* ResidentialProfile._generate_floor_layout (ground and upper floors)
ResidentialFloor(width, depth, p) ==
    LET b == get_interior_bounds(width, depth, p.wall_thickness)
        interior_width == b.x_max - b.x_min
        interior_depth == b.y_max - b.y_min
        required_width == MIN_ROOM_SIZE * 2 + HallwayWidth
        room_width_each_side == (interior_width - HallwayWidth) \div 2
        hallway_x_left == b.x_min + room_width_each_side
        hallway_x_right == hallway_x_left + HallwayWidth
        hallway_y_max == IF p.floors > 1
                         THEN ProfileStairZone("RESIDENTIAL", width, depth, p).y_min
                         ELSE b.y_max
        hallway_depth == hallway_y_max - b.y_min
        wanted == Min(Max(1, IntDiv(hallway_depth, MIN_ROOM_SIZE)), 2)
        fits == validate_room_size(room_width_each_side, hallway_depth \div wanted)
        num_rooms == IF fits THEN wanted ELSE 1
        room_depth == IF fits THEN hallway_depth \div wanted ELSE hallway_depth
        emitted(i) == /\ i < num_rooms
                      /\ b.y_min + (i + 1) * room_depth <= hallway_y_max + CM
                      /\ validate_room_size(room_width_each_side, room_depth)
        apartment(name, i, x_min, x_max) ==
            IF emitted(i)
            THEN <<Room(name, x_min, b.y_min + i * room_depth,
                        x_max, b.y_min + (i + 1) * room_depth)>>
            ELSE <<>>
        mid_y == b.y_min + room_depth
    IN  IF interior_width < required_width \/ interior_depth < MIN_ROOM_SIZE
        THEN EmptyLayout
        ELSE IF room_width_each_side < MIN_ROOM_SIZE THEN EmptyLayout
        ELSE IF hallway_depth < MIN_ROOM_SIZE THEN EmptyLayout
        ELSE [rooms |->
                  <<Room("hallway", hallway_x_left, b.y_min,
                         hallway_x_right, hallway_y_max)>>
                  \o apartment("apt_L0", 0, b.x_min, hallway_x_left)
                  \o apartment("apt_L1", 1, b.x_min, hallway_x_left)
                  \o apartment("apt_R0", 0, hallway_x_right, b.x_max)
                  \o apartment("apt_R1", 1, hallway_x_right, b.x_max),
              walls |->
                  HallwayWalls(0, room_depth, b.y_min, hallway_y_max,
                               hallway_x_left, hallway_x_right)
                  \o (IF num_rooms > 1
                      THEN HallwayWalls(1, room_depth, b.y_min, hallway_y_max,
                                        hallway_x_left, hallway_x_right)
                      ELSE <<>>)
                  \o (IF num_rooms > 1 /\ mid_y < hallway_y_max - MIN_WALL_OFFSET
                      THEN (IF hallway_x_left - b.x_min - DOOR_WIDTH > MIN_WALL_OFFSET
                            THEN <<WallDef(b.x_min, mid_y,
                                           hallway_x_left - DOOR_WIDTH, mid_y)>>
                            ELSE <<>>)
                           \o (IF b.x_max - hallway_x_right - DOOR_WIDTH > MIN_WALL_OFFSET
                               THEN <<WallDef(hallway_x_right + DOOR_WIDTH, mid_y,
                                              b.x_max, mid_y)>>
                               ELSE <<>>)
                      ELSE <<>>)]

\* BarProfile.get_ground_floor_layout
BarGroundFloor(width, depth, p) ==
    LET b == get_interior_bounds(width, depth, p.wall_thickness)
        interior_width == b.x_max - b.x_min
        interior_depth == b.y_max - b.y_min
        stair_zone == ProfileStairZone("BAR", width, depth, p)
        bar_y == b.y_min + interior_depth \div 2
        back_room_x == IF p.floors > 1 THEN stair_zone.x_max + 50 * CM
                       ELSE b.x_min + MulK(interior_width, 300)
        opening_width == interior_width \div 2
        opening_start == b.x_min + (interior_width - opening_width) \div 2
    IN  [rooms |->
             <<Room("seating", b.x_min, b.y_min, b.x_max, bar_y),
               Room("bar_area", back_room_x, bar_y, b.x_max, b.y_max)>>
             \o (IF p.floors > 1
                 THEN <<Room("back_room", b.x_min, bar_y, back_room_x, b.y_max)>>
                 ELSE <<>>),
         walls |->
             (IF opening_start > b.x_min + 30 * CM
              THEN <<WallDef(b.x_min, bar_y, opening_start, bar_y)>> ELSE <<>>)
             \o (IF opening_start + opening_width < b.x_max - 30 * CM
                 THEN <<WallDef(opening_start + opening_width, bar_y,
                                b.x_max, bar_y)>>
                 ELSE <<>>)
             \o (IF p.floors > 1
                 THEN adjust_wall_for_stair_zone(
                          WallDef(back_room_x, bar_y + DOOR_WIDTH,
                                  back_room_x, b.y_max), stair_zone)
                 ELSE <<>>)]

\* BarProfile.get_upper_floor_layout
BarUpperFloor(width, depth, p) ==
    LET b == get_interior_bounds(width, depth, p.wall_thickness)
        interior_width == b.x_max - b.x_min
        stair_zone == ProfileStairZone("BAR", width, depth, p)
        mid_x == b.x_min + interior_width \div 2
        door_y == b.y_min + 150 * CM
    IN  IF interior_width > 4 * M
        THEN [rooms |-> <<Room("vip_left", b.x_min, b.y_min, mid_x, b.y_max),
                          Room("vip_right", mid_x, b.y_min, b.x_max, b.y_max)>>,
              walls |->
                  adjust_wall_for_stair_zone(
                      WallDef(mid_x, b.y_min, mid_x, door_y), stair_zone)
                  \o adjust_wall_for_stair_zone(
                      WallDef(mid_x, door_y + DOOR_WIDTH, mid_x, b.y_max),
                      stair_zone)]
        ELSE EmptyLayout

\* the get_ground_floor_layout of the profile class registered under profile
get_ground_floor_layout(profile, width, depth, p) ==
    CASE profile = "STOREFRONT" -> StorefrontGroundFloor(width, depth, p)
      [] profile = "WAREHOUSE" -> WarehouseGroundFloor(width, depth, p)
      [] profile = "RESIDENTIAL" -> ResidentialFloor(width, depth, p)
      [] profile = "BAR" -> BarGroundFloor(width, depth, p)
      [] OTHER -> EmptyLayout

\* the get_upper_floor_layout of the profile class registered under profile
get_upper_floor_layout(profile, width, depth, p) ==
    CASE profile = "STOREFRONT" -> StorefrontUpperFloor(width, depth, p)
      [] profile = "RESIDENTIAL" -> ResidentialFloor(width, depth, p)
      [] profile = "BAR" -> BarUpperFloor(width, depth, p)
      [] OTHER -> EmptyLayout

-----------------------------------------------------------------------------
(* interiors.py: generate_interior_layout and get_floor_slab_opening *)

MaxInteriorFloor_Undamaged(p) == p.floors

\* lines 1507-1521: the number of floors that get interior walls
MaxInteriorFloor(p) ==
    LET total_height == p.floors * p.floor_height
        below_damage ==
            IF p.damage_min_height # NoValue /\ p.damage_min_height < total_height
            THEN IntDiv(p.damage_min_height, p.floor_height)
            ELSE p.floors
    IN  IF p.has_patio /\ p.floors >= 2
        THEN Min(below_damage, p.floors - 1) ELSE below_damage

\* lines 1536-1553: the ground floor walls that pass validation, in order
RECURSIVE ValidatedWalls(_, _, _)
ValidatedWalls(walls, p, window_positions) ==
    IF walls = <<>> THEN <<>>
    ELSE LET adjusted == validate_and_adjust_cardinal_wall(
                             Head(walls), p.width, p.depth, p.wall_thickness,
                             window_positions)
             rest == ValidatedWalls(Tail(walls), p, window_positions)
         IN  IF adjusted = NoWall THEN rest
             ELSE IF WallLength(adjusted) < 30 * CM THEN rest
             ELSE <<adjusted>> \o rest

\* lines 1556-1572 with build_interior_wall: the walls built on floor f
InteriorWallsOfFloor_Unsupported(validated, p, f) ==
    [k \in 1..Len(validated) |->
        [start |-> validated[k].start, end |-> validated[k].end, floor |-> f,
         base_z |-> f * p.floor_height]]
InteriorWallsOfFloor(validated, p, f) ==
    IF f > 0 /\ ~p.floor_slabs THEN <<>>
    ELSE LET built == SelectSeq(validated, LAMBDA w : ~(WallLength(w) < 20 * CM))
         IN  [k \in 1..Len(built) |->
                 [start |-> built[k].start, end |-> built[k].end, floor |-> f,
                  base_z |-> f * p.floor_height]]

RECURSIVE InteriorWallsUpTo(_, _, _)
InteriorWallsUpTo(validated, p, n) ==
    IF n <= 0 THEN <<>>
    ELSE InteriorWallsUpTo(validated, p, n - 1)
         \o InteriorWallsOfFloor(validated, p, n - 1)

StairFlights_None(p) == 0

\* lines 1579-1589: the number of stair flights
StairFlights(p) ==
    LET total_height == p.floors * p.floor_height
        max_stair_floor ==
            IF p.damage_min_height # NoValue /\ p.damage_min_height < total_height
            THEN IntDiv(p.damage_min_height, p.floor_height) - 1
            ELSE p.floors - 1
    IN  IF p.floors > 1 /\ p.floor_slabs /\ ~p.exterior_stairs
        THEN Max(0, max_stair_floor) ELSE 0

\* generate_interior_layout(bm, params): the interior walls that are built,
\* floor by floor, and for each stair flight its floor and its stair zone
generate_interior_layout(p) ==
    IF p.building_profile = "NONE" THEN [walls |-> <<>>, stairs |-> <<>>]
    ELSE LET window_positions == get_window_positions(p.width, p.depth, p)
             stair_zone == ProfileStairZone(p.building_profile, p.width, p.depth, p)
             ground_floor_layout == get_ground_floor_layout(
                                        p.building_profile, p.width, p.depth, p)
             validated_ground_walls ==
                 ValidatedWalls(ground_floor_layout.walls, p, window_positions)
         IN  [walls |-> InteriorWallsUpTo(validated_ground_walls, p,
                                          Min(p.floors, MaxInteriorFloor(p))),
              stairs |-> [k \in 1..StairFlights(p) |->
                             [floor |-> k - 1, zone |-> stair_zone]]]

\* get_floor_slab_opening(params); NoZone stands for None
get_floor_slab_opening(p) ==
    IF ~p.floor_slabs THEN NoZone
    ELSE IF p.floors <= 1 THEN NoZone
    ELSE ProfileFloorOpening(p.building_profile, p.width, p.depth, p)

-----------------------------------------------------------------------------
(* Interior layouts: direct calls of a profile's get_ground_floor_layout    *)
(* and get_upper_floor_layout and of generate_interior_layout.              *)

Profiles == {"STOREFRONT", "WAREHOUSE", "RESIDENTIAL", "BAR"}

LayoutParams ==
    {[DefaultParams EXCEPT !.width = w, !.depth = d, !.wall_thickness = wt,
                           !.floors = n] :
        w \in {2 * M, 4 * M, 6 * M, 8 * M, 12 * M, 20 * M},
        d \in {2 * M, 4 * M, 6 * M, 8 * M, 12 * M, 20 * M},
        wt \in {10 * CM, 25 * CM, 50 * CM, 1 * M},
        n \in 1..MaxFloors}

LayoutCalls ==
    [fn : {"get_ground_floor_layout", "get_upper_floor_layout"},
     profile : Profiles, p : LayoutParams]

InteriorParams ==
    {[DefaultParams EXCEPT !.building_profile = profile,
                           !.width = w, !.depth = d, !.floors = n,
                           !.ground_floor_windows = gw,
                           !.windows_per_floor = count, !.window_width = ww,
                           !.window_sides = ws, !.back_door_offset = bo,
                           !.floor_slabs = slabs] :
        profile \in Profiles,
        w \in {6 * M, 8 * M, 12 * M}, d \in {3 * M, 6 * M, 8 * M, 10 * M},
        n \in 1..MaxFloors, gw \in {"STOREFRONT", "REGULAR"},
        count \in {0, 3, 6}, ww \in {40 * CM, 120 * CM},
        ws \in {"ALL", "FRONT_ONLY"}, bo \in {0, 500}, slabs \in BOOLEAN}

InteriorCalls == [fn : {"generate_interior_layout"}, p : InteriorParams]

\* the openings of the wall an interior wall is to be attached to
AttachOpenings ==
    {<<>>,
     <<<<2 * M, 3 * M>>>>,
     <<<<2 * M, 3 * M>>, <<5 * M, 6 * M>>>>,
     <<<<5 * M, 6 * M>>, <<2 * M, 3 * M>>>>,
     <<<<40 * CM, 120 * CM>>, <<2 * M, 3 * M>>>>,
     <<<<2 * M, 4 * M>>, <<3 * M, 350 * CM>>>>,
     <<<<50 * CM, 750 * CM>>>>,
     <<<<7 * M, 9 * M>>>>}

AttachCalls ==
    [fn : {"find_safe_wall_attachment"},
     target_pos : {k * 10 * CM : k \in 0..80},
     wall : {"front"},
     openings : AttachOpenings,
     min_pos : {25 * CM}, max_pos : {775 * CM}]

\* footprints and wall thicknesses between the declared limits of the
\* operator's properties, with every placement the profiles ask for
OpeningCalls ==
    [fn : {"get_floor_opening"},
     width : {2 * M, 3 * M, 4 * M, 8 * M, 50 * M},
     depth : {2 * M, 3 * M, 4 * M, 8 * M, 50 * M},
     wall_thickness : {10 * CM, 25 * CM, 60 * CM, 1 * M},
     stair_position : {"back_right", "back_left", "back_center"}]

InitLayout ==
    /\ BuildIdle
    /\ call \in LayoutCalls \cup InteriorCalls \cup AttachCalls \cup OpeningCalls
    /\ result = NoResult

CallGroundFloorLayout ==
    /\ call.fn = "get_ground_floor_layout"
    /\ result.kind = "none"
    /\ result' = [kind |-> "layout",
                  layout |-> get_ground_floor_layout(
                      call.profile, call.p.width, call.p.depth, call.p)]
    /\ UNCHANGED <<call, buildVars>>

CallUpperFloorLayout ==
    /\ call.fn = "get_upper_floor_layout"
    /\ result.kind = "none"
    /\ result' = [kind |-> "layout",
                  layout |-> get_upper_floor_layout(
                      call.profile, call.p.width, call.p.depth, call.p)]
    /\ UNCHANGED <<call, buildVars>>

CallGenerateInteriorLayout ==
    /\ call.fn = "generate_interior_layout"
    /\ result.kind = "none"
    /\ result' = [kind |-> "interior", built |-> generate_interior_layout(call.p)]
    /\ UNCHANGED <<call, buildVars>>

\* the window positions of a building whose named wall has the openings
PositionsOn(wall, openings) ==
    [w \in {"front", "back", "left", "right"} |->
        IF w = wall THEN openings ELSE <<>>]

CallFindSafeWallAttachment ==
    /\ call.fn = "find_safe_wall_attachment"
    /\ result.kind = "none"
    /\ result' = [kind |-> "attachment",
                  pos |-> find_safe_wall_attachment(
                      call.target_pos, call.wall,
                      PositionsOn(call.wall, call.openings),
                      call.min_pos, call.max_pos)]
    /\ UNCHANGED <<call, buildVars>>

\* get_floor_opening(width, depth, wall_thickness, stair_position), with
\* the stair zone it derives the opening from
CallGetFloorOpening ==
    /\ call.fn = "get_floor_opening"
    /\ result.kind = "none"
    /\ result' = [kind |-> "opening",
                  zone |-> get_stair_zone(call.width, call.depth,
                                          call.wall_thickness, call.stair_position),
                  opening |-> get_floor_opening(call.width, call.depth,
                                                call.wall_thickness,
                                                call.stair_position)]
    /\ UNCHANGED <<call, buildVars>>

NextLayout ==
    \/ CallGroundFloorLayout
    \/ CallUpperFloorLayout
    \/ CallGenerateInteriorLayout
    \/ CallFindSafeWallAttachment
    \/ CallGetFloorOpening

SpecLayout == InitLayout /\ [][NextLayout]_vars

LayoutReturned == result.kind = "layout"

OpeningReturned == result.kind = "opening"

NonEmptyRect(r) == r.x_min < r.x_max /\ r.y_min < r.y_max

RectInside(r, b) ==
    /\ b.x_min <= r.x_min /\ r.x_max <= b.x_max
    /\ b.y_min <= r.y_min /\ r.y_max <= b.y_max

\* C28: for every width, depth and wall thickness within the declared ranges
\* and every placement (back_right, back_left, back_center) the stair zone is
\* a non-empty rectangle inside the interior bounds, and the floor opening
\* derived from it has x_min < x_max and y_min < y_max
C28_Original ==
    OpeningReturned =>
        /\ NonEmptyRect(result.zone)
        /\ RectInside(result.zone,
                      get_interior_bounds(call.width, call.depth,
                                          call.wall_thickness))
        /\ NonEmptyRect(result.opening)

AttachReturned == result.kind = "attachment"

AttachBlocked(pos) ==
    is_position_blocked_by_opening(pos, call.wall,
                                   PositionsOn(call.wall, call.openings))

\* C20 as stated: find_safe_wall_attachment(target, wall, openings, min_pos,
\* max_pos) returns target when target is not blocked; when target is
\* blocked it returns an edge of a safe zone, or None when no safe zone
\* exists; every non-None result lies in [min_pos, max_pos] and is a safe
\* position, i.e. is_position_blocked_by_opening is false for it.
C20_Original ==
    AttachReturned =>
        /\ ~AttachBlocked(call.target_pos) => result.pos = call.target_pos
        /\ result.pos # NoValue =>
               /\ call.min_pos <= result.pos
               /\ result.pos <= call.max_pos
               /\ ~AttachBlocked(result.pos)

\* width >= 2.5, depth >= 2.5 and width * depth >= 6.0
Usable(room) ==
    /\ room.x_max - room.x_min >= MIN_ROOM_SIZE
    /\ room.y_max - room.y_min >= MIN_ROOM_SIZE
    /\ AreaCm2(room.x_max - room.x_min, room.y_max - room.y_min) >= MIN_ROOM_AREA

SizeChecked(rooms, k) ==
    \/ rooms[k].name \in {"retail_front", "back_room", "living", "bedroom",
                          "office", "apt_L0", "apt_L1", "apt_R0", "apt_R1"}
       /\ call.profile # "BAR"
    \/ rooms[k].name = "warehouse_floor" /\ Len(rooms) = 2

C23_Original ==
    (/\ LayoutReturned
     /\ call.fn = "get_ground_floor_layout"
     /\ call.profile = "STOREFRONT"
     /\ call.p.floors > 1
     /\ Len(result.layout.rooms) = 2) =>
        LET back_room == result.layout.rooms[2]
        IN  /\ back_room.name = "back_room"
            /\ back_room.y_max - back_room.y_min >= STAIR_ZONE_DEPTH + 1 * M

InteriorReturned == result.kind = "interior"

\* C13 as stated: in a multi-floor build with any profile, no interior wall
\* segment that is built overlaps the stair zone rectangle.
C13_Original ==
    (InteriorReturned /\ call.p.floors > 1) =>
        \A k \in 1..Len(result.built.walls) :
            ~walls_overlap_zone(result.built.walls[k],
                                ProfileStairZone(call.p.building_profile,
                                    call.p.width, call.p.depth, call.p))

\* the interior walls built on floor f, as (start, end) pairs in the order
\* they were built
BuiltOnFloor(built, f) ==
    LET on == SelectSeq(built.walls, LAMBDA w : w.floor = f)
    IN  [k \in 1..Len(on) |-> <<on[k].start, on[k].end>>]

\* the validated ground-floor wall list of a call of generate_interior_layout
ValidatedGroundWalls(p) ==
    LET validated == ValidatedWalls(
            get_ground_floor_layout(p.building_profile, p.width, p.depth, p).walls,
            p, get_window_positions(p.width, p.depth, p))
    IN  [k \in 1..Len(validated) |-> <<validated[k].start, validated[k].end>>]

\* C12: on every floor index i >= 1 on which interior walls are built, floor
\* slabs are enabled and the walls are exactly the validated ground-floor
\* wall list (which is what floor 0 got) re-emitted at base elevation
\* i * floor_height; with floor slabs disabled no interior wall is built
\* above the ground floor.
C12_StackedWalls ==
    InteriorReturned =>
        \A k \in 1..Len(result.built.walls) :
            LET w == result.built.walls[k]
            IN  w.floor >= 1 =>
                  /\ call.p.floor_slabs
                  /\ w.base_z = w.floor * call.p.floor_height
                  /\ BuiltOnFloor(result.built, w.floor)
                         = ValidatedGroundWalls(call.p)
                  /\ BuiltOnFloor(result.built, w.floor)
                         = BuiltOnFloor(result.built, 0)

\* a three-floor layout with slabs has been generated whose ground floor
\* has walls, one of them adjusted or dropped by validation, and whose top
\* floor has walls
C12_Witness ==
    /\ InteriorReturned
    /\ call.p.floors = 3
    /\ call.p.floor_slabs
    /\ Len(BuiltOnFloor(result.built, 2)) >= 2
    /\ LET layout == get_ground_floor_layout(call.p.building_profile,
                          call.p.width, call.p.depth, call.p).walls
       IN  [k \in 1..Len(layout) |-> <<layout[k].start, layout[k].end>>]
               # ValidatedGroundWalls(call.p)

\* mesh_builder.py, _build_floor_walls lines 2050-2084: the stretch of the
\* building's outline, measured in the building's x (front, back) or y
\* (left, right), that an opening at [x_start, x_end] along the wall covers.
\* The front wall runs from x = 0, the back wall from x = width downwards,
\* the left wall from y = depth - wall_thickness downwards, the right wall
\* from y = wall_thickness.
OpeningSpan(p, side, o) ==
    CASE side = "front" -> <<o.x_start, o.x_end>>
      [] side = "back" -> <<p.width - o.x_end, p.width - o.x_start>>
      [] side = "left" -> <<p.depth - p.wall_thickness - o.x_end,
                            p.depth - p.wall_thickness - o.x_start>>
      [] side = "right" -> <<p.wall_thickness + o.x_start,
                             p.wall_thickness + o.x_end>>

\* the openings of the exterior wall of one side of floor f, as built
ExteriorOpenings(p, f, side) ==
    LET walls == build_floor_walls(p, f, f * p.floor_height, CurrentWindows(p, f))
        wall == CHOOSE w \in {walls[k] : k \in 1..4} : w.name = side
    IN  {OpeningSpan(p, side, wall.openings[k]) : k \in 1..Len(wall.openings)}

\* the exterior walls an interior wall's end point touches, each with the
\* position of the point along it
Touches(p, point) ==
    LET b == get_interior_bounds(p.width, p.depth, p.wall_thickness)
    IN  (IF Abs(point[1] - b.x_min) < CM THEN {<<"left", point[2]>>} ELSE {})
        \cup (IF Abs(point[1] - b.x_max) < CM THEN {<<"right", point[2]>>} ELSE {})
        \cup (IF Abs(point[2] - b.y_min) < CM THEN {<<"front", point[1]>>} ELSE {})
        \cup (IF Abs(point[2] - b.y_max) < CM THEN {<<"back", point[1]>>} ELSE {})

\* a built interior wall one of whose end points lies in the clearance zone
\* of an opening of the exterior wall it touches
InClearance(p, w) ==
    \E point \in {w.start, w.end} :
        \E t \in Touches(p, point) :
            \E o \in ExteriorOpenings(p, w.floor, t[1]) :
                o[1] - WALL_CLEARANCE <= t[2] /\ t[2] <= o[2] + WALL_CLEARANCE

\* C5 as stated: no interior wall that is built has an end point touching an
\* exterior wall inside the clearance zone [x_start - 0.3, x_end + 0.3] of a
\* window or door opening of that exterior wall, and every wall that is built
\* is a wall of the ground floor layout at its own place: blocked walls are
\* dropped, never moved.
C5_Original ==
    InteriorReturned =>
        LET layout == get_ground_floor_layout(call.p.building_profile,
                          call.p.width, call.p.depth, call.p)
        IN  \A k \in 1..Len(result.built.walls) :
                /\ ~InClearance(call.p, result.built.walls[k])
                /\ \E j \in 1..Len(layout.walls) :
                       /\ layout.walls[j].start = result.built.walls[k].start
                       /\ layout.walls[j].end = result.built.walls[k].end

-----------------------------------------------------------------------------
(* mesh_builder.py: build() as a state machine.  mesh is the sequence of   *)
(* the elements build() has emitted, each with the geometry that defines   *)
(* it; the vertex and face lists are computed from these by code that      *)
(* reads nothing else.                                                     *)

MM == CM \div 10

Opt(cond, e) == IF cond THEN <<e>> ELSE <<>>

\* the values of the n draws made from stream state s
DrawsFrom(s, n) == [k \in 1..n |-> RandomAt(s, k)]

\* build(), line 697: util.seed_random(self.params.get('seed', 0))
BuildStartRng_Stale(seed, old) == old
BuildStartRng(seed, old) == seed_random(seed)

HasProfile_Never(dp) == FALSE

\* damage_profile is not None
HasProfile(dp) == dp.min_height # NoValue

\* build(), line 770: floors_to_build = min(intact_floors, floors)
FloorsToBuild(p, intact) == Min(intact, p.floors)

\* build_floor_slab lines 601-604 and _build_patio_interior_floor_slab lines
\* 1834-1837: the opening clamped to the slab
ClampOpening(opening, x_min, y_min, x_max, y_max) ==
    [x_min |-> Max(opening.x_min, x_min + 5 * CM),
     y_min |-> Max(opening.y_min, y_min + 5 * CM),
     x_max |-> Min(opening.x_max, x_max - 5 * CM),
     y_max |-> Min(opening.y_max, y_max - 5 * CM)]

\* build_floor_slab(bm, width, depth, z_height, 0.15, wall_thickness, opening):
\* the slab and the hole that is left in it (NoZone: a solid slab)
build_floor_slab(p, z_height, opening) ==
    LET wt == p.wall_thickness
    IN  [kind |-> "slab", z |-> z_height, patio |-> FALSE,
         x_min |-> wt, y_min |-> wt,
         x_max |-> p.width - wt, y_max |-> p.depth - wt,
         cut |-> IF opening = NoZone THEN NoZone
                 ELSE ClampOpening(opening, wt, wt, p.width - wt, p.depth - wt)]

\* _build_patio_interior_floor_slab(z_height, 0.15, width, depth,
\* wall_thickness, stair_opening)
build_patio_interior_floor_slab(p, z_height, stair_opening) ==
    LET wt == p.wall_thickness
        slab_x_min == IF p.patio_side = "LEFT"
                      THEN MulK(p.width, p.patio_size) ELSE wt
        slab_y_min == IF p.patio_side = "FRONT"
                      THEN MulK(p.depth, p.patio_size) ELSE wt
        slab_x_max == IF p.patio_side \notin {"BACK", "FRONT", "LEFT"}
                      THEN MulK(p.width, 1000 - p.patio_size) ELSE p.width - wt
        slab_y_max == IF p.patio_side = "BACK"
                      THEN MulK(p.depth, 1000 - p.patio_size) ELSE p.depth - wt
        c == ClampOpening(stair_opening, slab_x_min, slab_y_min,
                          slab_x_max, slab_y_max)
    IN  [kind |-> "slab", z |-> z_height, patio |-> TRUE,
         x_min |-> slab_x_min, y_min |-> slab_y_min,
         x_max |-> slab_x_max, y_max |-> slab_y_max,
         cut |-> IF stair_opening = NoZone THEN NoZone
                 ELSE IF c.x_min >= c.x_max \/ c.y_min >= c.y_max THEN NoZone
                 ELSE c]

\* _build_patio, lines 1675-1745: the slab of the patio, on the patio's side
\* of the divider and inside the parapets, and the hole that is left in it
build_patio_slab(p, top_floor_z, stair_opening) ==
    LET parapet_thickness == MulK(p.wall_thickness, 700)
        slab_x_min == IF p.patio_side \in {"BACK", "FRONT", "LEFT"}
                      THEN parapet_thickness
                      ELSE MulK(p.width, 1000 - p.patio_size)
        slab_x_max == IF p.patio_side = "LEFT"
                      THEN MulK(p.width, p.patio_size)
                      ELSE p.width - parapet_thickness
        slab_y_min == IF p.patio_side = "BACK"
                      THEN MulK(p.depth, 1000 - p.patio_size)
                      ELSE parapet_thickness
        slab_y_max == IF p.patio_side = "FRONT"
                      THEN MulK(p.depth, p.patio_size)
                      ELSE p.depth - parapet_thickness
        c == ClampOpening(stair_opening, slab_x_min, slab_y_min,
                          slab_x_max, slab_y_max)
    IN  [kind |-> "slab", z |-> top_floor_z, patio |-> TRUE,
         x_min |-> slab_x_min, y_min |-> slab_y_min,
         x_max |-> slab_x_max, y_max |-> slab_y_max,
         cut |-> IF stair_opening = NoZone THEN NoZone
                 ELSE IF c.x_min >= c.x_max \/ c.y_min >= c.y_max THEN NoZone
                 ELSE c]

\* build(), lines 772-873: what one pass of the floor loop emits
FloorElements(p, dp, intact, i) ==
    LET floor_base_z == i * p.floor_height
        is_top_intact_floor == i = FloorsToBuild(p, intact) - 1
        cut_into == HasProfile(dp) /\ intact < p.floors
        is_top_floor == IF cut_into THEN is_top_intact_floor
                        ELSE is_top_intact_floor /\ ~p.flat_roof
        add_wall_caps == IF cut_into THEN is_top_floor
                         ELSE is_top_floor /\ ~p.flat_roof
        is_patio_floor == /\ is_top_intact_floor
                          /\ p.has_patio
                          /\ p.floors >= 2
                          /\ ~HasProfile(dp)
        cw == CurrentWindows(p, i)
        segs == IF is_patio_floor
                THEN build_patio_floor_walls(p, floor_base_z, cw)
                ELSE build_floor_walls(p, i, floor_base_z, cw)
        caps == IF is_patio_floor THEN ~p.flat_roof ELSE add_wall_caps
        walls == [k \in 1..Len(segs) |->
                     [kind |-> "wall", floor |-> i, seg |-> segs[k],
                      top_cap |-> caps]]
        stair_opening == get_floor_slab_opening(p)
    IN  walls \o
        Opt(i > 0 /\ p.floor_slabs,
            IF is_patio_floor
            THEN build_patio_interior_floor_slab(p, floor_base_z, stair_opening)
            ELSE build_floor_slab(p, floor_base_z, stair_opening))

\* build(), lines 887-935: the damaged top, then pilasters, patio, parapet
\* and roof
TopElements(p, dp, intact) ==
    LET total_height == p.floors * p.floor_height
        build_roof_and_features == ~HasProfile(dp) \/ intact >= p.floors
        has_patio == p.has_patio /\ p.floors >= 2 /\ build_roof_and_features
    IN  Opt(HasProfile(dp) /\ intact < p.floors,
            [kind |-> "damaged_top", base_z |-> intact * p.floor_height,
             profile |-> dp])
        \o (IF build_roof_and_features
            THEN Opt(p.facade_pilasters,
                     [kind |-> "pilasters", height |-> total_height])
                 \o Opt(has_patio,
                        [kind |-> "patio", z |-> (p.floors - 1) * p.floor_height,
                         side |-> p.patio_side, size |-> p.patio_size])
                 \o Opt(has_patio,
                        build_patio_slab(p, (p.floors - 1) * p.floor_height,
                                         get_floor_slab_opening(p)))
                 \o Opt(p.roof_parapet,
                        [kind |-> "parapet", z |-> total_height,
                         patio |-> has_patio])
                 \o Opt(p.flat_roof,
                        [kind |-> "roof", z |-> total_height,
                         patio |-> has_patio, inset |-> p.roof_parapet])
            ELSE Opt(p.facade_pilasters /\ intact > 0,
                     [kind |-> "pilasters", height |-> intact * p.floor_height]))

\* interiors.generate_interior_layout(self.bm, self.params) as mesh elements
LayoutElements(built) ==
    [k \in 1..Len(built.walls) |->
        [kind |-> "interior_wall", start |-> built.walls[k].start,
         end |-> built.walls[k].end, floor |-> built.walls[k].floor,
         base_z |-> built.walls[k].base_z]]
    \o [k \in 1..Len(built.stairs) |->
           [kind |-> "stairs", floor |-> built.stairs[k].floor,
            zone |-> built.stairs[k].zone]]

InteriorElements(p) == LayoutElements(generate_interior_layout(p))

\* generate_rubble_fill, lines 1645-1659
MaxRubbleHeight(p) ==
    LET total_height == p.floors * p.floor_height
        below_damage ==
            IF p.enable_damage /\ p.damage_amount > 0 /\ p.damage_min_height # NoValue
            THEN Min(total_height - 10 * CM, p.damage_min_height - 10 * CM)
            ELSE total_height - 10 * CM
    IN  IF p.has_patio /\ p.floors >= 2
        THEN Min(below_damage, (p.floors - 1) * p.floor_height - 10 * CM)
        ELSE below_damage

\* _create_slanted_fill from stream state s: six draws
create_slanted_fill(s, b, base_height, max_height) ==
    LET slant_x == random_factor(s, 1, 0 - 300, 300)
        slant_y == random_factor(s, 2, 0 - 300, 300)
        across == MulK(b.x_max - b.x_min, slant_x)
        along == MulK(b.y_max - b.y_min, slant_y)
        corner(h, n) ==
            Min(Max(30 * CM, h + random_float(s, n, 0 - 20 * CM, 20 * CM)),
                max_height)
    IN  [kind |-> "slanted_fill",
         h_00 |-> corner(base_height, 3),
         h_10 |-> corner(base_height + across, 4),
         h_01 |-> corner(base_height + along, 5),
         h_11 |-> corner(base_height + across + along, 6)]

\* generate_rubble_fill for the modes FILLED and PARTIAL, from stream state
\* s: the elements and the number of draws
generate_rubble_fill(p, s) ==
    LET b == get_interior_bounds(p.width, p.depth, p.wall_thickness)
        max_rubble_height == MaxRubbleHeight(p)
        fill_floors == Min(p.fill_floors, p.floors - 1)
        base_fill_height ==
            Min(fill_floors * p.floor_height - random_float(s, 1, 30 * CM, 60 * CM),
                max_rubble_height - 50 * CM)
    IN  IF p.interior_fill = "FILLED"
        THEN [elements |-> <<[kind |-> "rubble_box", x_min |-> b.x_min,
                              y_min |-> b.y_min, x_max |-> b.x_max,
                              y_max |-> b.y_max, height |-> max_rubble_height]>>,
              drawn |-> 0]
        ELSE IF p.interior_fill = "PARTIAL" /\ fill_floors > 0
        THEN [elements |-> <<create_slanted_fill(RngAfter(s, 1), b,
                                 base_fill_height, max_rubble_height)>>,
              drawn |-> 7]
        ELSE [elements |-> <<>>, drawn |-> 0]

\* _create_organic_pile from stream state s: the pile and the number of draws
create_organic_pile(s, center_x, center_y, radius, height) ==
    LET num_sides == random_int(s, 1, 5, 7)
        n == 1 + 2 * num_sides + 3
    IN  [element |-> [kind |-> "pile", x |-> center_x, y |-> center_y,
                      radius |-> radius, height |-> height,
                      num_sides |-> num_sides,
                      shape |-> [k \in 1..(n - 1) |-> RandomAt(s, k + 1)]],
         drawn |-> n]

\* _generate_rubble_piles, lines 1845-1847
NumPiles(p) == Min(5, 2 + IntDiv(p.rubble_density * 3, 1000))

\* line 1856: while attempts < 10
AttemptsLeft_Always(n) == TRUE
AttemptsLeft(n) == n < 10

\* lines 1868-1872: dist < (pile_radius + pr) * 0.8, in millimetres
PilesOverlap(x, y, radius, other) ==
    LET dx == Abs(x - other.x) \div MM
        dy == Abs(y - other.y) \div MM
        reach == MulK(radius + other.radius, 800) \div MM
    IN  dx * dx + dy * dy < reach * reach

\* lines 1857-1865: the position and size one attempt draws
PileDrawn(p, s) ==
    LET b == get_interior_bounds(p.width, p.depth, p.wall_thickness)
        interior_width == b.x_max - b.x_min
        interior_depth == b.y_max - b.y_min
        margin == 80 * CM
    IN  [x |-> random_float(s, 1, b.x_min + margin, b.x_max - margin),
         y |-> random_float(s, 2, b.y_min + margin, b.y_max - margin),
         radius |-> random_float(s, 3, 40 * CM,
                        Min(120 * CM, MulK(Min(interior_width, interior_depth), 250))),
         height |-> random_float(s, 4, 30 * CM, 80 * CM)]

\* generate_exterior_rubble(bm, params) from stream state s: the elements
\* and the number of draws
generate_exterior_rubble(p, s) ==
    LET \* lines 1901-1927: the pile that is built after n draws of the call
        PileAfter[n \in Nat] ==
            LET from == RngAfter(s, n)
                side == random_int(from, 1, 0, 3)
                reach == MulK(p.rubble_spread, 800)
                pile_x ==
                    CASE side \in {0, 1} ->
                           random_float(from, 2, 50 * CM, p.width - 50 * CM)
                      [] side = 2 ->
                           random_float(from, 2, 0 - reach, 0 - 30 * CM)
                      [] OTHER ->
                           random_float(from, 2, p.width + 30 * CM, p.width + reach)
                pile_y ==
                    CASE side = 0 ->
                           random_float(from, 3, 0 - reach, 0 - 30 * CM)
                      [] side = 1 ->
                           random_float(from, 3, p.depth + 30 * CM, p.depth + reach)
                      [] OTHER ->
                           random_float(from, 3, 50 * CM, p.depth - 50 * CM)
                pile_radius == random_float(from, 4, 40 * CM, 100 * CM)
                pile_height == random_float(from, 5, 20 * CM, 60 * CM)
            IN  create_organic_pile(RngAfter(s, n + 5), pile_x, pile_y,
                                    pile_radius, pile_height)
        \* the draws made when the pile that starts after n draws is built
        DrawnWith[n \in Nat] == n + 5 + PileAfter[n].drawn
        \* the draws made when k piles are built
        Drawn[k \in Nat] == IF k = 0 THEN 0 ELSE DrawnWith[Drawn[k - 1]]
    IN  IF ~p.exterior_rubble THEN [elements |-> <<>>, drawn |-> 0]
        ELSE [elements |-> [k \in 1..p.exterior_rubble_piles |->
                               PileAfter[Drawn[k - 1]].element],
              drawn |-> Drawn[p.exterior_rubble_piles]]

\* the mapping a builder was constructed with
InputOf(p) == [p EXCEPT !.damage_min_height = NoValue]

-----------------------------------------------------------------------------
(* The parameter mappings builds are started with *)

PlainParams ==
    {[DefaultParams EXCEPT !.floors = n, !.floor_slabs = slabs,
                           !.front_door_offset = offset, !.width = w,
                           !.door_width = dw, !.building_profile = profile,
                           !.back_exit = back, !.flat_roof = roof] :
        n \in 1..MaxFloors, slabs \in BOOLEAN, offset \in {0, 100, 1000},
        w \in {2 * M, 8 * M}, dw \in {80 * CM, 120 * CM},
        profile \in {"NONE", "STOREFRONT"}, back \in BOOLEAN,
        roof \in BOOLEAN}

PatioParams ==
    {[DefaultParams EXCEPT !.has_patio = TRUE, !.floors = n,
                           !.patio_side = side, !.depth = d,
                           !.building_profile = profile,
                           !.roof_parapet = parapet] :
        n \in 2..MaxFloors, side \in {"BACK", "FRONT", "LEFT", "RIGHT"},
        d \in {6 * M, 12 * M}, profile \in {"STOREFRONT", "RESIDENTIAL"},
        parapet \in BOOLEAN}

DamagedParams ==
    {[DefaultParams EXCEPT !.enable_damage = TRUE, !.damage_amount = amount,
                           !.floors = n, !.seed = seed,
                           !.building_profile = profile,
                           !.interior_fill = fill,
                           !.facade_pilasters = (fill = "FILLED")] :
        amount \in {300, 1000}, n \in 1..MaxFloors, seed \in Seeds,
        profile \in {"NONE", "WAREHOUSE"},
        fill \in {"NONE", "FILLED", "PARTIAL"}}

RubbleParams ==
    {[DefaultParams EXCEPT !.interior_fill = "RUBBLE_PILES",
                           !.width = w, !.depth = d,
                           !.rubble_density = density, !.seed = seed,
                           !.exterior_rubble = outside,
                           !.building_profile = "BAR"] :
        w \in {2 * M, 4 * M, 8 * M}, d \in {2 * M, 6 * M},
        density \in {0, 300, 1000}, seed \in Seeds, outside \in BOOLEAN}

FinishParams ==
    {[DefaultParams EXCEPT !.auto_clean = clean, !.mark_uv_seams = seams,
                           !.has_patio = patio, !.facade_pilasters = TRUE,
                           !.roof_parapet = TRUE, !.exterior_rubble = TRUE,
                           !.building_profile = "RESIDENTIAL"] :
        clean \in BOOLEAN, seams \in BOOLEAN, patio \in BOOLEAN}

DamagedTopParams ==
    {[DefaultParams EXCEPT !.enable_damage = TRUE, !.damage_amount = amount,
                           !.floors = n, !.has_patio = TRUE,
                           !.roof_parapet = TRUE, !.flat_roof = roof] :
        amount \in {300, 1000}, n \in 1..MaxFloors, roof \in BOOLEAN}

\* damaged storefronts, whose ground floor layout has interior walls
DamagedInteriorParams ==
    {[DefaultParams EXCEPT !.enable_damage = TRUE, !.damage_amount = amount,
                           !.floors = n, !.seed = seed,
                           !.building_profile = "STOREFRONT",
                           !.window_sides = "FRONT_ONLY"] :
        amount \in {300, 1000}, n \in 1..MaxFloors, seed \in {0, MaxSeed}}

BuildParams ==
    PlainParams \cup PatioParams \cup DamagedParams \cup RubbleParams
    \cup FinishParams \cup DamagedTopParams \cup DamagedInteriorParams

\* the mappings of the sessions in which builds follow one another
RebuildParams ==
    {[DefaultParams EXCEPT !.seed = seed, !.enable_damage = TRUE,
                           !.damage_amount = 1000,
                           !.building_profile = "WAREHOUSE",
                           !.interior_fill = "PARTIAL"] : seed \in {0, MaxSeed}}
    \cup {[DefaultParams EXCEPT !.seed = seed, !.width = 2 * M, !.depth = 2 * M,
                                !.interior_fill = "RUBBLE_PILES"] : seed \in {0, MaxSeed}}
    \cup {[DefaultParams EXCEPT !.seed = seed, !.exterior_rubble = TRUE,
                                !.interior_fill = "RUBBLE_PILES",
                                !.building_profile = "STOREFRONT"] : seed \in {0, MaxSeed}}

-----------------------------------------------------------------------------
(* build(): the actions *)

\* no build has started; the stream is in a state earlier draws left it in
Init ==
    /\ params = NoParams
    /\ pc = "idle"
    /\ rng \in StreamStates
    /\ draws = <<>>
    /\ floor_idx = 0
    /\ mesh = <<>>
    /\ damage_profile = NoProfile
    /\ intact_floors = 0
    /\ piles = <<>>
    /\ pile_i = 0
    /\ attempts = 0
    /\ steps = 0
    /\ ref = NoRef
    /\ call = [fn |-> "build"]
    /\ result = NoResult

\* build(), lines 697-766: a builder constructed with the mapping p starts
\* to build: the stream is seeded and the damage profile generated
BeginWith(p, d) ==
    /\ params' = [p EXCEPT !.damage_min_height =
                      IF d.damage_min_height # NoValue
                      THEN d.damage_min_height ELSE @]
    /\ rng' = d.rng
    /\ draws' = DrawsFrom(d.from, d.drawn)
    /\ damage_profile' = d.damage_profile
    /\ intact_floors' = d.intact_floors
    /\ floor_idx' = 0
    /\ mesh' = <<>>
    /\ piles' = <<>>
    /\ pile_i' = 0
    /\ attempts' = 0
    /\ steps' = 1
    /\ pc' = "floors"
    /\ ref' = [ref EXCEPT !.found = rng]
    /\ UNCHANGED <<call, result>>

Begin(p) == BeginWith(p, BuildDamage(p, BuildStartRng(p.seed, rng)))

BuildBegin ==
    /\ pc = "idle"
    /\ \E p \in BuildParams : Begin(p)

\* the elements first, then those of made, are added to the mesh and the
\* draws of made are taken from the stream
Emit(made, first) ==
    /\ mesh' = mesh \o first \o made.elements
    /\ draws' = draws \o DrawsFrom(rng, made.drawn)
    /\ rng' = RngAfter(rng, made.drawn)

\* lines 772-873: one pass of the loop over the intact floors
BuildFloor ==
    /\ pc = "floors"
    /\ floor_idx < FloorsToBuild(params, intact_floors)
    /\ mesh' = mesh \o FloorElements(params, damage_profile, intact_floors, floor_idx)
    /\ floor_idx' = floor_idx + 1
    /\ steps' = steps + 1
    /\ UNCHANGED <<params, pc, rng, draws, damage_profile, intact_floors,
                   piles, pile_i, attempts, ref, call, result>>

\* the loop of lines 878-885 runs
HasExtraSlabs == HasProfile(damage_profile) /\ params.floor_slabs

SlabBelowDamage_Always(floor_base_z, dp) == TRUE

\* line 883: floor_base_z < min_damage_height - 0.1
SlabBelowDamage(floor_base_z, dp) == floor_base_z < dp.min_height - 10 * CM

\* lines 878-885: one pass of the loop over the floors the damage cut off
BuildExtraSlab ==
    /\ pc = "floors"
    /\ floor_idx >= FloorsToBuild(params, intact_floors)
    /\ HasExtraSlabs
    /\ floor_idx < params.floors
    /\ mesh' = mesh \o
               Opt(SlabBelowDamage(floor_idx * params.floor_height,
                                   damage_profile),
                   build_floor_slab(params, floor_idx * params.floor_height,
                                    get_floor_slab_opening(params)))
    /\ floor_idx' = floor_idx + 1
    /\ steps' = steps + 1
    /\ UNCHANGED <<params, pc, rng, draws, damage_profile, intact_floors,
                   piles, pile_i, attempts, ref, call, result>>

\* lines 887-935: the damaged top and the features above the floors
BuildTop ==
    /\ pc = "floors"
    /\ floor_idx >= FloorsToBuild(params, intact_floors)
    /\ ~(HasExtraSlabs /\ floor_idx < params.floors)
    /\ mesh' = mesh \o TopElements(params, damage_profile, intact_floors)
    /\ pc' = "interior"
    /\ steps' = steps + 1
    /\ UNCHANGED <<params, rng, draws, floor_idx, damage_profile,
                   intact_floors, piles, pile_i, attempts, ref, call, result>>

InteriorLayoutBuilt_Always(p) == p.building_profile # "NONE"

\* lines 940-961: the branches that call generate_interior_layout; FILLED and
\* PARTIAL never do, RUBBLE_PILES and every other value do when a profile is
\* selected
InteriorLayoutBuilt(p) ==
    /\ p.interior_fill \notin {"FILLED", "PARTIAL"}
    /\ p.building_profile # "NONE"

\* lines 937-961: rubble fill or interior layout
BuildInterior ==
    /\ pc = "interior"
    /\ Emit(generate_rubble_fill(params, rng),
            IF InteriorLayoutBuilt(params)
            THEN InteriorElements(params) ELSE <<>>)
    /\ pc' = IF params.interior_fill = "RUBBLE_PILES" THEN "piles" ELSE "exterior"
    /\ piles' = <<>>
    /\ pile_i' = 0
    /\ attempts' = 0
    /\ steps' = steps + 1
    /\ UNCHANGED <<params, floor_idx, damage_profile, intact_floors, ref,
                   call, result>>

\* _generate_rubble_piles, lines 1856-1880: one pass of the while loop
PileAttempt ==
    /\ pc = "piles"
    /\ pile_i < NumPiles(params)
    /\ AttemptsLeft(attempts)
    /\ LET drawn == PileDrawn(params, rng)
           overlaps == \E k \in 1..Len(piles) :
                           PilesOverlap(drawn.x, drawn.y, drawn.radius, piles[k])
           pile == create_organic_pile(RngAfter(rng, 4), drawn.x, drawn.y,
                                       drawn.radius, drawn.height)
       IN  IF ~overlaps
           THEN /\ piles' = Append(piles, [x |-> drawn.x, y |-> drawn.y,
                                           radius |-> drawn.radius])
                /\ mesh' = Append(mesh, pile.element)
                /\ draws' = draws \o DrawsFrom(rng, 4 + pile.drawn)
                /\ rng' = RngAfter(rng, 4 + pile.drawn)
                /\ pile_i' = pile_i + 1
                /\ attempts' = 0
           ELSE /\ attempts' = attempts + 1
                /\ draws' = draws \o DrawsFrom(rng, 4)
                /\ rng' = RngAfter(rng, 4)
                /\ UNCHANGED <<piles, mesh, pile_i>>
    /\ steps' = steps + 1
    /\ UNCHANGED <<params, pc, floor_idx, damage_profile, intact_floors, ref,
                   call, result>>

\* line 1856: the while loop ends without a position; the next pile
PileAbandon ==
    /\ pc = "piles"
    /\ pile_i < NumPiles(params)
    /\ ~AttemptsLeft(attempts)
    /\ pile_i' = pile_i + 1
    /\ attempts' = 0
    /\ steps' = steps + 1
    /\ UNCHANGED <<params, pc, rng, draws, floor_idx, mesh, damage_profile,
                   intact_floors, piles, ref, call, result>>

\* line 1882: _generate_rubble_piles returns
PilesDone ==
    /\ pc = "piles"
    /\ pile_i >= NumPiles(params)
    /\ pc' = "exterior"
    /\ steps' = steps + 1
    /\ UNCHANGED <<params, rng, draws, floor_idx, mesh, damage_profile,
                   intact_floors, piles, pile_i, attempts, ref, call, result>>

\* lines 963-965: exterior rubble
BuildExterior ==
    /\ pc = "exterior"
    /\ Emit(generate_exterior_rubble(params, rng), <<>>)
    /\ pc' = "finish"
    /\ steps' = steps + 1
    /\ UNCHANGED <<params, floor_idx, damage_profile, intact_floors, piles,
                   pile_i, attempts, ref, call, result>>

Finish_Always(p) == <<[kind |-> "cleanup"], [kind |-> "uv_seams"]>>

\* lines 967-974: _cleanup_mesh if auto_clean, then generate_uvs and
\* mark_seams_for_uvs if mark_uv_seams
Finish(p) ==
    Opt(p.auto_clean, [kind |-> "cleanup"])
    \o Opt(p.mark_uv_seams, [kind |-> "uv_seams"])

\* lines 967-976: cleanup, UV seams, return self.bm.  The first build that
\* returns is kept for comparison.
BuildReturn ==
    /\ pc = "finish"
    /\ mesh' = mesh \o Finish(params)
    /\ pc' = "done"
    /\ steps' = steps + 1
    /\ ref' = IF ref.set THEN ref
              ELSE [set |-> TRUE, params |-> InputOf(params), mesh |-> mesh',
                    draws |-> draws, found |-> ref.found, first |-> ref.found]
    /\ UNCHANGED <<params, rng, draws, floor_idx, damage_profile,
                   intact_floors, piles, pile_i, attempts, call, result>>

BuildSteps ==
    \/ BuildFloor
    \/ BuildExtraSlab
    \/ BuildTop
    \/ BuildInterior
    \/ PileAttempt
    \/ PileAbandon
    \/ PilesDone
    \/ BuildExterior
    \/ BuildReturn

Next == BuildBegin \/ BuildSteps

Spec == Init /\ [][Next]_vars

\* the first build of a session
BuildFirst ==
    /\ pc = "idle"
    /\ \E p \in RebuildParams : Begin(p)

NextFirst == BuildFirst \/ BuildSteps

\* build() is a sequential procedure: a step that can be taken is taken
SpecLive == Init /\ [][NextFirst]_vars /\ WF_vars(NextFirst)

\* a later build by a new builder, with the stream as the last build left it
BuildAgain ==
    /\ pc = "done"
    /\ \E p \in RebuildParams : Begin(p)

NextRebuild == BuildFirst \/ BuildAgain \/ BuildSteps

SpecRebuild == Init /\ [][NextRebuild]_vars

\* a later build by a new builder that is given the mapping of the last
\* build with its declared values set anew: the builder keeps the caller's
\* mapping (line 686) and build has stored damage_min_height in it (line 758)
BuildReuse ==
    /\ pc = "done"
    /\ \E p \in RebuildParams :
           Begin([p EXCEPT !.damage_min_height = params.damage_min_height])

NextReuse == BuildFirst \/ BuildAgain \/ BuildReuse \/ BuildSteps

SpecReuse == Init /\ [][NextReuse]_vars

-----------------------------------------------------------------------------
(* Properties of build() *)

Returned == pc = "done"

\* C1: two builds with equal parameter mappings (seed included) make the
\* same sequence of draws and return the same mesh, whatever state the
\* stream was left in by earlier builds: at every point of a build the draws
\* made so far are the first draws of the stream seeded from the mapping's
\* seed, and a build that returns with the mapping of the first build of the
\* session returns that build's mesh after that build's draws.
C1_Determinism ==
    /\ pc # "idle" =>
           draws = DrawsFrom(seed_random(params.seed), Len(draws))
    /\ (Returned /\ ref.set /\ InputOf(params) = ref.params) =>
           (mesh = ref.mesh /\ draws = ref.draws)

\* a later build with the first build's mapping has returned; it made draws,
\* and it found the stream in a state that is neither the one the first
\* build found nor the one its seed gives
C1_Witness ==
    /\ Returned
    /\ ref.set
    /\ InputOf(params) = ref.params
    /\ ref.found # ref.first
    /\ ref.found # seed_random(params.seed)
    /\ Len(draws) > 0
    /\ \E k \in 1..Len(mesh) : mesh[k].kind = "pile"

\* C15 as stated: no state other than the reseeded stream carries over
\* between builds: after any sequence of earlier builds, builds given the
\* mapping of an earlier build with other damage settings included, a build
\* that returns with the declared values of the first build of the session,
\* whose mapping was fresh, returns that build's mesh.
C15_Original ==
    (Returned /\ ref.set /\ InputOf(params) = ref.params) => mesh = ref.mesh

\* a bound on the steps of one build, computed from its mapping: the floor
\* loops, at most eleven steps for each rubble pile, and six single steps
MaxBuildSteps(p) == p.floors + 11 * NumPiles(p) + 6

\* C2: for every parameter mapping build runs to completion and returns a
\* mesh: the number of steps it takes is bounded by a function of the
\* inputs, the rubble-pile loop makes at most 10 attempts for a pile, and
\* every build that starts returns.
C2_Termination ==
    /\ [](attempts <= 10 /\ (pc # "idle" => steps <= MaxBuildSteps(params)))
    /\ <>Returned

\* a build with rubble piles has returned after giving up on a pile for
\* which ten attempts found no position
C2_Witness ==
    /\ Returned
    /\ params.interior_fill = "RUBBLE_PILES"
    /\ Len(piles) >= 1
    /\ Len(piles) < NumPiles(params)
    /\ steps >= 10 + NumPiles(params)

\* C24 as stated: RUBBLE_PILES places between 2 and 5 piles for every
\* rubble_density and every outcome of the random draws, and any two placed
\* piles have a centre distance of at least 0.8 times the sum of their radii.
C24_Original ==
    (Returned /\ params.interior_fill = "RUBBLE_PILES") =>
        /\ 2 <= Len(piles) /\ Len(piles) <= 5
        /\ \A i, j \in 1..Len(piles) :
               i < j => ~PilesOverlap(piles[j].x, piles[j].y, piles[j].radius,
                                      piles[i])

StairsBuilt == SelectSeq(mesh, LAMBDA e : e.kind = "stairs")
SlabsBuilt == SelectSeq(mesh, LAMBDA e : e.kind = "slab")

\* the holes left in the slabs built at elevation z
CutsAt(z) ==
    {SlabsBuilt[k].cut : k \in {n \in 1..Len(SlabsBuilt) :
                                  SlabsBuilt[n].z = z /\ SlabsBuilt[n].cut # NoZone}}

\* C6 as stated, read in the way most favourable to the code (the opening is
\* the stair zone inset by the 0.1 framing margin, and of the two slabs of a
\* patio floor only the one the opening lies in is cut): in a multi-floor
\* build the stair flight of every floor is built in the one stair zone
\* computed from footprint, wall thickness and the profile's placement
\* policy, and the hole left in the floor at every slab level is that zone's
\* opening.
C6_Original ==
    (Returned /\ params.floors > 1) =>
        /\ \A k \in 1..Len(StairsBuilt) :
               StairsBuilt[k].zone = ProfileStairZone(params.building_profile,
                                         params.width, params.depth, params)
        /\ \A k \in 1..Len(SlabsBuilt) :
               CutsAt(SlabsBuilt[k].z)
                   = {ProfileFloorOpening(params.building_profile,
                                          params.width, params.depth, params)}

\* the interior partition walls and stair flights of the mesh
InteriorBuilt ==
    SelectSeq(mesh, LAMBDA e : e.kind \in {"interior_wall", "stairs"})

RubbleBuilt ==
    SelectSeq(mesh, LAMBDA e : e.kind \in {"rubble_box", "slanted_fill", "pile"})

\* C14 as stated: whenever interior_fill is FILLED, PARTIAL or RUBBLE_PILES
\* the build generates no interior partition walls and no interior stairs,
\* whatever the building profile.
C14_Original ==
    (Returned /\ params.interior_fill \in {"FILLED", "PARTIAL", "RUBBLE_PILES"}) =>
        InteriorBuilt = <<>>

\* C14: whenever interior_fill is FILLED or PARTIAL the build generates no
\* interior partition walls and no interior stairs, whatever the building
\* profile; with RUBBLE_PILES the build generates the interior layout of the
\* profile, the same walls and stairs as with no fill, alongside the piles.
C14_FillExcludesInterior ==
    Returned =>
        /\ params.interior_fill \in {"FILLED", "PARTIAL"} => InteriorBuilt = <<>>
        /\ params.interior_fill \notin {"FILLED", "PARTIAL"} =>
               InteriorBuilt = IF params.building_profile = "NONE" THEN <<>>
                               ELSE InteriorElements(params)

\* a build with a profile whose layout has walls or stairs has returned with
\* the interior filled: rubble was built and the layout was not
C14_Witness ==
    /\ Returned
    /\ params.interior_fill \in {"FILLED", "PARTIAL"}
    /\ params.building_profile # "NONE"
    /\ InteriorElements(params) # <<>>
    /\ RubbleBuilt # <<>>
    /\ InteriorBuilt = <<>>

\* the place of the k-th element of the mesh in the order of build: 1 the
\* floors, 2 the damaged top, 3 pilasters, 4 the patio with its slab,
\* 5 parapet, 6 roof, 7 interior walls, stairs and rubble fill, 8 exterior
\* rubble (piles outside the footprint), 9 cleanup, 10 UV and seams
StepRank(k) ==
    LET e == mesh[k]
    IN  CASE e.kind = "wall" -> 1
          [] e.kind = "slab" ->
                IF k > 1 /\ mesh[k - 1].kind = "patio" THEN 4 ELSE 1
          [] e.kind = "damaged_top" -> 2
          [] e.kind = "pilasters" -> 3
          [] e.kind = "patio" -> 4
          [] e.kind = "parapet" -> 5
          [] e.kind = "roof" -> 6
          [] e.kind \in {"interior_wall", "stairs", "rubble_box", "slanted_fill"} -> 7
          [] e.kind = "pile" ->
                IF \/ e.x < 0 \/ e.x > params.width
                   \/ e.y < 0 \/ e.y > params.depth
                THEN 8 ELSE 7
          [] e.kind = "cleanup" -> 9
          [] OTHER -> 10

\* within the floors: the floor index twice, plus one for the slab
FloorRank(k) ==
    IF mesh[k].kind = "wall" THEN 2 * mesh[k].floor
    ELSE 2 * (mesh[k].z \div params.floor_height) + 1

KindBuilt(kind) == \E k \in 1..Len(mesh) : mesh[k].kind = kind

\* C16: the elements of a build are added in this order: for each floor in
\* increasing index its exterior walls then its floor slab; after all floors
\* the damaged top section; then facade pilasters, patio structure, parapet,
\* roof; then interior walls and stairs or rubble fill; then exterior
\* rubble; then mesh cleanup; last UV projection and seam marking.  Cleanup
\* runs at most once, after every geometry-emitting step, and only if
\* auto_clean; UV projection and seam marking run only if mark_uv_seams; a
\* build that has returned has done both when their flags are set.
C16_BuildOrder ==
    pc # "idle" =>
        /\ \A j, k \in 1..Len(mesh) :
               j < k =>
                   /\ StepRank(j) <= StepRank(k)
                   /\ (StepRank(j) = 1 /\ StepRank(k) = 1) =>
                          FloorRank(j) <= FloorRank(k)
                   /\ StepRank(j) >= 9 => StepRank(j) < StepRank(k)
        /\ KindBuilt("cleanup") => params.auto_clean
        /\ KindBuilt("uv_seams") => params.mark_uv_seams
        /\ Returned => /\ params.auto_clean => KindBuilt("cleanup")
                       /\ params.mark_uv_seams => KindBuilt("uv_seams")

\* a build with pilasters, patio, parapet, roof, interior stairs and exterior
\* rubble has returned without cleanup and with UV seams marked
C16_Witness ==
    /\ Returned
    /\ ~params.auto_clean
    /\ params.mark_uv_seams
    /\ \A kind \in {"wall", "slab", "pilasters", "patio", "parapet", "roof",
                     "stairs", "pile", "uv_seams"} : KindBuilt(kind)
    /\ \E k \in 1..Len(mesh) : StepRank(k) = 8
    /\ ~KindBuilt("cleanup")

WallsBuilt == SelectSeq(mesh, LAMBDA e : e.kind = "wall")

\* the number of slabs built at elevation z
SlabsAt(z) == Len(SelectSeq(SlabsBuilt, LAMBDA e : e.z = z))

\* C18: with damage enabled (damage_amount > 0) and floor slabs enabled, a
\* floor slab is built at level i * floor_height, for i in 0..floors-1,
\* exactly when i >= 1 and either i < intact_floors or i * floor_height <
\* min_height - 0.1; no level receives more than one slab, no slab is built
\* at the ground level or at any other elevation, and no slab is built at
\* or above the lowest surviving wall height.
C18_DamagedSlabs ==
    (Returned /\ HasProfile(damage_profile) /\ params.floor_slabs) =>
        /\ \A i \in 0..(params.floors - 1) :
               (SlabsAt(i * params.floor_height) >= 1) <=>
                   /\ i >= 1
                   /\ \/ i < intact_floors
                      \/ i * params.floor_height
                             < damage_profile.min_height - 10 * CM
        /\ \A k \in 1..Len(SlabsBuilt) :
               /\ SlabsAt(SlabsBuilt[k].z) = 1
               /\ SlabsBuilt[k].z > 0
               /\ SlabsBuilt[k].z < damage_profile.min_height
               /\ \E i \in 1..(params.floors - 1) :
                      SlabsBuilt[k].z = i * params.floor_height

\* a damaged build has returned with the slab of a floor the damage cut
\* into: the floor is not intact and its slab lies below the damage line
C18_Witness ==
    /\ Returned
    /\ HasProfile(damage_profile)
    /\ params.floor_slabs
    /\ intact_floors < params.floors
    /\ SlabsAt(intact_floors * params.floor_height) = 1
    /\ \E i \in 1..(intact_floors - 1) : SlabsAt(i * params.floor_height) = 1

\* damage is enabled with damage_amount > 0 and cuts into the floors
DamageCuts ==
    /\ params.enable_damage
    /\ params.damage_amount > 0
    /\ intact_floors < params.floors

WallsOfFloor(i) == SelectSeq(WallsBuilt, LAMBDA e : e.floor = i)
Doors(seg) == SelectSeq(seg.openings, LAMBDA o : o.type = "door")

\* C9: with damage disabled and no patio, build emits for each floor index
\* i in 0..floors-1 exactly four exterior wall segments (front, back, left,
\* right) at base elevation i * floor_height; the front door is on the front
\* wall of floor 0 only, at [front_door_offset * (width - door_width),
\* + door_width] (the only other door is the back exit, on the back wall of
\* floor 0); and with floor slabs enabled there is exactly one floor slab at
\* z = i * floor_height for each i in 1..floors-1 and none at z = 0.
C9_PlainBuild ==
    (Returned /\ ~params.enable_damage /\ ~params.has_patio) =>
        /\ Len(WallsBuilt) = 4 * params.floors
        /\ \A i \in 0..(params.floors - 1) :
               /\ Len(WallsOfFloor(i)) = 4
               /\ {WallsOfFloor(i)[k].seg.name : k \in 1..4}
                      = {"front", "back", "left", "right"}
               /\ \A k \in 1..4 :
                      LET seg == WallsOfFloor(i)[k].seg
                          x == MulK(params.width - params.door_width,
                                    params.front_door_offset)
                      IN  /\ seg.base_z = i * params.floor_height
                          /\ IF i = 0 /\ seg.name = "front"
                             THEN /\ Len(Doors(seg)) = 1
                                  /\ Doors(seg)[1].x_start = x
                                  /\ Doors(seg)[1].x_end = x + params.door_width
                             ELSE IF i = 0 /\ seg.name = "back" /\ params.back_exit
                             THEN Len(Doors(seg)) = 1
                             ELSE Len(Doors(seg)) = 0
        /\ params.floor_slabs =>
               [k \in 1..Len(SlabsBuilt) |-> SlabsBuilt[k].z]
                   = [i \in 1..(params.floors - 1) |-> i * params.floor_height]
        /\ ~params.floor_slabs => Len(SlabsBuilt) = 0

\* a three-floor building without damage and patio, with slabs and a front
\* door off centre, has been built
C9_Witness ==
    /\ Returned
    /\ ~params.enable_damage
    /\ ~params.has_patio
    /\ params.floors = 3
    /\ params.floor_slabs
    /\ params.front_door_offset = 100
    /\ Len(SlabsBuilt) = 2
    /\ Len(WallsBuilt) = 12

-----------------------------------------------------------------------------
(* mesh_builder.py: build_wall_with_openings and the faces it makes.  A     *)
(* corner of a wall box is (x along the wall, offset inward, z); a face is  *)
(* its part of the wall, its kind, the rectangle it spans on the wall and   *)
(* its normal in space.                                                     *)

Up == <<0, 0, 1>>
ZeroVector == <<0, 0, 0>>

\* mathutils.Vector: cross product, dot product and negation
Cross(a, b) ==
    <<a[2] * b[3] - a[3] * b[2], a[3] * b[1] - a[1] * b[3],
      a[1] * b[2] - a[2] * b[1]>>
Dot(a, b) == a[1] * b[1] + a[2] * b[2] + a[3] * b[3]
Neg(a) == <<0 - a[1], 0 - a[2], 0 - a[3]>>

\* the direction in space of the edge from corner a to corner b:
\* start + direction * x + inner_offset + (0, 0, z), inner_offset = -normal * t
EdgeDir(a, b, segment) ==
    LET s == [k \in 1..3 |-> Sgn(b[k] - a[k])]
    IN  [k \in 1..3 |-> s[1] * segment.direction[k]
                        - s[2] * segment.normal[k] + s[3] * Up[k]]

\* the normal of a quad with the given winding
FaceNormal(verts, segment) ==
    Cross(EdgeDir(verts[1], verts[2], segment),
          EdgeDir(verts[2], verts[3], segment))

\* f.normal as read right after bm.faces.new(verts): the normal of the
\* winding, or the zero vector while the normals have not been updated
NormalRead(verts, segment, normals_ready) ==
    IF normals_ready THEN FaceNormal(verts, segment) ELSE ZeroVector

\* bm.faces.new(verts) followed by "if f.normal.dot(axis) < 0: normal_flip()"
\* (want = 1), by "if f.normal.dot(axis) > 0: normal_flip()" (want = -1) or
\* by no check (want = 0)
NewFace(part, kind, verts, segment, axis, want, normals_ready) ==
    LET n == FaceNormal(verts, segment)
        flip == Dot(NormalRead(verts, segment, normals_ready), axis) * want < 0
    IN  [part |-> part, kind |-> kind,
         x0 |-> Min(verts[1][1], verts[3][1]), x1 |-> Max(verts[1][1], verts[3][1]),
         z0 |-> Min(verts[1][3], verts[3][3]), z1 |-> Max(verts[1][3], verts[3][3]),
         normal |-> IF flip THEN Neg(n) ELSE n]

\* the eight corners verts[0..7] of a wall box, here 1..8
BoxVerts(x0, x1, z0, z1, thickness) ==
    <<<<x0, 0, z0>>, <<x1, 0, z0>>, <<x1, 0, z1>>, <<x0, 0, z1>>,
      <<x0, thickness, z0>>, <<x1, thickness, z0>>,
      <<x1, thickness, z1>>, <<x0, thickness, z1>>>>

\* _create_solid_wall_segment
create_solid_wall_segment(segment, thickness, add_top_cap, normals_ready) ==
    LET v == BoxVerts(0, segment.length, 0, segment.height, thickness)
        F(kind, verts, axis, want) ==
            NewFace("solid", kind, verts, segment, axis, want, normals_ready)
    IN  <<F("outer", <<v[1], v[2], v[3], v[4]>>, segment.normal, 1),
          F("inner", <<v[6], v[5], v[8], v[7]>>, segment.normal, 0 - 1)>>
        \o Opt(add_top_cap, F("top", <<v[4], v[3], v[7], v[8]>>, Up, 1))
        \o <<F("bottom", <<v[5], v[6], v[2], v[1]>>, Up, 0 - 1),
             F("left_end", <<v[5], v[1], v[4], v[8]>>, segment.direction, 0 - 1),
             F("right_end", <<v[2], v[6], v[7], v[3]>>, segment.direction, 1)>>

\* _create_wall_cell: the bottom face only when z0 < 0.001
CellAtGround(z0) == z0 < MM

create_wall_cell(segment, x0, x1, z0, z1, thickness, add_top_cap, normals_ready) ==
    LET v == BoxVerts(x0, x1, z0, z1, thickness)
        F(kind, verts, axis, want) ==
            NewFace("cell", kind, verts, segment, axis, want, normals_ready)
    IN  <<F("outer", <<v[1], v[2], v[3], v[4]>>, segment.normal, 1),
          F("inner", <<v[6], v[5], v[8], v[7]>>, segment.normal, 0 - 1)>>
        \o Opt(add_top_cap, F("top", <<v[4], v[3], v[7], v[8]>>, Up, 1))
        \o Opt(CellAtGround(z0),
               F("bottom", <<v[5], v[6], v[2], v[1]>>, Up, 0 - 1))

\* _create_opening_frame: the bottom frame only when z_start > 0.01
create_opening_frame(segment, opening, thickness, normals_ready) ==
    LET v == BoxVerts(opening.x_start, opening.x_end, opening.z_start,
                      opening.z_end, thickness)
        F(kind, verts, axis, want) ==
            NewFace("frame", kind, verts, segment, axis, want, normals_ready)
    IN  Opt(opening.z_start > CM,
            F("bottom", <<v[1], v[2], v[6], v[5]>>, Up, 0 - 1))
        \o <<F("top", <<v[3], v[4], v[8], v[7]>>, Up, 1),
             F("left", <<v[4], v[1], v[5], v[8]>>, segment.direction, 0 - 1),
             F("right", <<v[2], v[3], v[7], v[6]>>, segment.direction, 1)>>

\* sorted(set(...)): the members of a set of numbers in increasing order
SortedSet(S) ==
    [r \in 1..Cardinality(S) |->
        CHOOSE x \in S : Cardinality({y \in S : y < x}) = r - 1]

\* lines 315-324: the grid lines, clamped to the wall
GridCoords(limit, values) ==
    SortedSet({Max(0, Min(limit, v)) : v \in {0, limit} \cup values})

x_coords(segment) ==
    GridCoords(segment.length,
               {segment.openings[k].x_start : k \in 1..Len(segment.openings)}
               \cup {segment.openings[k].x_end : k \in 1..Len(segment.openings)})

z_coords(segment) ==
    GridCoords(segment.height,
               {segment.openings[k].z_start : k \in 1..Len(segment.openings)}
               \cup {segment.openings[k].z_end : k \in 1..Len(segment.openings)})

\* lines 337-345: the centre of the cell lies in an opening, ends included
is_opening(openings, x0, x1, z0, z1) ==
    \E k \in 1..Len(openings) :
        /\ 2 * openings[k].x_start <= x0 + x1 /\ x0 + x1 <= 2 * openings[k].x_end
        /\ 2 * openings[k].z_start <= z0 + z1 /\ z0 + z1 <= 2 * openings[k].z_end

\* line 333: cells narrower or lower than 0.001 are skipped
ZeroSize(x0, x1, z0, z1) == Abs(x1 - x0) < MM \/ Abs(z1 - z0) < MM

\* sorted(segment.openings, key=x_start), a stable sort
SortedOpenings(ops) ==
    LET rank(k) == Cardinality({j \in 1..Len(ops) :
                       \/ ops[j].x_start < ops[k].x_start
                       \/ ops[j].x_start = ops[k].x_start /\ j < k})
    IN  [r \in 1..Len(ops) |-> ops[CHOOSE k \in 1..Len(ops) : rank(k) = r - 1]]

RECURSIVE Flatten(_)
Flatten(seqs) ==
    IF seqs = <<>> THEN <<>> ELSE Head(seqs) \o Flatten(Tail(seqs))

\* _create_wall_with_openings_thick: the cells of the grid, column by column,
\* then the frames of the openings, then the two end caps
create_wall_with_openings_thick(segment, openings, thickness, add_top_cap, normals_ready) ==
    LET xs == x_coords(segment)
        zs == z_coords(segment)
        Cell(i, j) ==
            IF \/ ZeroSize(xs[i], xs[i + 1], zs[j], zs[j + 1])
               \/ is_opening(openings, xs[i], xs[i + 1], zs[j], zs[j + 1])
            THEN <<>>
            ELSE create_wall_cell(segment, xs[i], xs[i + 1], zs[j], zs[j + 1],
                     thickness,
                     add_top_cap /\ zs[j + 1] >= segment.height - MM,
                     normals_ready)
        cells == Flatten([i \in 1..(Len(xs) - 1) |->
                     Flatten([j \in 1..(Len(zs) - 1) |-> Cell(i, j)])])
        frames == Flatten([k \in 1..Len(openings) |->
                      create_opening_frame(segment, openings[k], thickness,
                                           normals_ready)])
        L == segment.length
        H == segment.height
    IN  cells \o frames
        \o <<NewFace("end_cap", "left_end",
                     <<<<0, thickness, 0>>, <<0, 0, 0>>, <<0, 0, H>>,
                       <<0, thickness, H>>>>,
                     segment, segment.direction, 0, normals_ready),
             NewFace("end_cap", "right_end",
                     <<<<L, 0, 0>>, <<L, thickness, 0>>, <<L, thickness, H>>,
                       <<L, 0, H>>>>,
                     segment, segment.direction, 0, normals_ready)>>

\* build_wall_with_openings
build_wall_with_openings(segment, thickness, add_top_cap, normals_ready) ==
    LET openings == SortedOpenings(segment.openings)
    IN  IF openings = <<>>
        THEN create_solid_wall_segment(segment, thickness, add_top_cap,
                                       normals_ready)
        ELSE create_wall_with_openings_thick(segment, openings, thickness,
                                             add_top_cap, normals_ready)

\* _build_patio_divider_wall: the segment with its centred door
build_patio_divider_wall(direction, wall_length, height, door_width, normal, base_z) ==
    LET door_height == Min(height - 30 * CM, 240 * CM)
        door_x == IntDiv(wall_length - door_width, 2)
        segment == [name |-> "divider", length |-> wall_length,
                    height |-> height, base_z |-> base_z, openings |-> <<>>,
                    direction |-> direction, normal |-> normal]
    IN  add_opening(segment, door_x, door_x + door_width, 0, door_height, "door")

\* _build_patio, lines 1598-1671: start, end and normal of the divider wall
\* on each patio side
PatioDivider(p, patio_door_width) ==
    LET top_floor_z == (p.floors - 1) * p.floor_height
        along_x(normal) ==
            build_patio_divider_wall(<<Sgn(p.width), 0, 0>>, p.width,
                p.floor_height, patio_door_width, normal, top_floor_z)
        along_y(normal) ==
            build_patio_divider_wall(<<0, Sgn(p.depth), 0>>, p.depth,
                p.floor_height, patio_door_width, normal, top_floor_z)
    IN  CASE p.patio_side = "BACK" -> along_x(<<0, 1, 0>>)
          [] p.patio_side = "FRONT" -> along_x(<<0, 0 - 1, 0>>)
          [] p.patio_side = "LEFT" -> along_y(<<0 - 1, 0, 0>>)
          [] OTHER -> along_y(<<1, 0, 0>>)

-----------------------------------------------------------------------------
(* Wall meshes: direct calls of build_wall_with_openings on the segments    *)
(* that _build_floor_walls and _build_patio_floor_walls make, and of        *)
(* _build_patio_divider_wall as _build_patio calls it.                      *)

MeshParams ==
    {[DefaultParams EXCEPT !.width = w, !.door_width = dw,
                           !.front_door_offset = fo, !.window_sides = ws,
                           !.ground_floor_windows = gw,
                           !.storefront_sill_height = ss] :
        w \in {2 * M, 8 * M}, dw \in {80 * CM, 150 * CM},
        fo \in {0, 1, 100, 1000}, ws \in {"ALL", "FRONT_ONLY"},
        gw \in {"NONE", "STOREFRONT", "REGULAR"},
        ss \in {0, 5 * MM, 30 * CM}}

PatioMeshParams ==
    {[DefaultParams EXCEPT !.has_patio = TRUE, !.patio_side = side,
                           !.patio_size = size, !.floor_height = fh,
                           !.width = w] :
        side \in {"BACK", "FRONT", "LEFT", "RIGHT"}, size \in {200, 400},
        fh \in {250 * CM, 350 * CM}, w \in {2 * M, 8 * M}}

FloorSegments(p, floor_index) ==
    build_floor_walls(p, floor_index, floor_index * p.floor_height,
                      CurrentWindows(p, floor_index))

PatioSegments(p) ==
    build_patio_floor_walls(p, (p.floors - 1) * p.floor_height,
                            CurrentWindows(p, p.floors - 1))

MeshCalls ==
    {[fn |-> "build_wall_with_openings", segment |-> FloorSegments(p, i)[k],
      thickness |-> p.wall_thickness, add_top_cap |-> cap,
      normals_ready |-> ready] :
        p \in MeshParams, i \in 0..1, k \in 1..4, cap \in BOOLEAN,
        ready \in BOOLEAN}
    \cup
    {[fn |-> "build_wall_with_openings", segment |-> PatioSegments(p)[k],
      thickness |-> p.wall_thickness, add_top_cap |-> cap,
      normals_ready |-> ready] :
        p \in PatioMeshParams, k \in 1..3, cap \in BOOLEAN, ready \in BOOLEAN}

DividerCalls ==
    [fn : {"build_patio_divider_wall"}, p : PatioMeshParams,
     patio_door_width : {80 * CM, 150 * CM, 3 * M}, normals_ready : BOOLEAN]

InitMesh ==
    /\ BuildIdle
    /\ call \in MeshCalls \cup DividerCalls
    /\ result = NoResult

CallBuildWallWithOpenings ==
    /\ call.fn = "build_wall_with_openings"
    /\ result.kind = "none"
    /\ result' = [kind |-> "faces", segment |-> call.segment,
                  add_top_cap |-> call.add_top_cap,
                  faces |-> build_wall_with_openings(
                      call.segment, call.thickness, call.add_top_cap,
                      call.normals_ready)]
    /\ UNCHANGED <<call, buildVars>>

\* the call ends with build_wall_with_openings(..., add_top_cap=True)
CallBuildPatioDividerWall ==
    /\ call.fn = "build_patio_divider_wall"
    /\ result.kind = "none"
    /\ LET segment == PatioDivider(call.p, call.patio_door_width)
       IN  result' = [kind |-> "faces", segment |-> segment,
                      add_top_cap |-> TRUE,
                      faces |-> build_wall_with_openings(
                          segment, call.p.wall_thickness, TRUE,
                          call.normals_ready)]
    /\ UNCHANGED <<call, buildVars>>

NextMesh ==
    \/ CallBuildWallWithOpenings
    \/ CallBuildPatioDividerWall

SpecMesh == InitMesh /\ [][NextMesh]_vars

FacesReturned == result.kind = "faces"

\* the direction a face of the wall builder is meant to have
IntendedNormal(kind, segment) ==
    CASE kind = "outer" -> segment.normal
      [] kind = "inner" -> Neg(segment.normal)
      [] kind = "top" -> Up
      [] kind = "bottom" -> Neg(Up)
      [] kind = "left_end" -> Neg(segment.direction)
      [] OTHER -> segment.direction

\* the faces of the wall itself: those of the solid box, of the cells and the
\* two end caps (not the frames of the openings)
WallFaces ==
    {k \in 1..Len(result.faces) :
        result.faces[k].part \in {"solid", "cell", "end_cap"}}

\* C22: every face made by the wall builder, for the solid wall and for the
\* wall with openings, on every segment the build constructs (exterior walls,
\* walls of a patio floor, patio divider walls), has its normal in the
\* intended direction: outer faces along +normal, inner faces along -normal,
\* top caps +Z, bottom caps -Z, the end cap at the wall start along
\* -direction and the end cap at the wall end along +direction.
C22_Original ==
    FacesReturned =>
        \A k \in WallFaces :
            result.faces[k].normal
                = IntendedNormal(result.faces[k].kind, result.segment)

\* the wall with openings was built, and its openings lie inside the wall
\* and do not overlap each other
GridBuilt ==
    /\ FacesReturned
    /\ Len(result.segment.openings) >= 1
    /\ \A k \in 1..Len(result.segment.openings) :
           LET op == result.segment.openings[k]
           IN  /\ 0 <= op.x_start /\ op.x_start < op.x_end
               /\ op.x_end <= result.segment.length
               /\ 0 <= op.z_start /\ op.z_start < op.z_end
               /\ op.z_end <= result.segment.height
    /\ \A i, j \in 1..Len(result.segment.openings) :
           i < j => ~RectanglesOverlap(result.segment.openings[i],
                                       result.segment.openings[j])

\* a face of the given part and kind spans exactly the given rectangle
HasFace(part, kind, x0, x1, z0, z1) ==
    \E k \in 1..Len(result.faces) :
        /\ result.faces[k].part = part /\ result.faces[k].kind = kind
        /\ result.faces[k].x0 = x0 /\ result.faces[k].x1 = x1
        /\ result.faces[k].z0 = z0 /\ result.faces[k].z1 = z1

\* the centre of the rectangle lies in one of the openings
CentreInOpening(x0, x1, z0, z1) ==
    \E k \in 1..Len(result.segment.openings) :
        LET op == result.segment.openings[k]
        IN  /\ 2 * op.x_start <= x0 + x1 /\ x0 + x1 <= 2 * op.x_end
            /\ 2 * op.z_start <= z0 + z1 /\ z0 + z1 <= 2 * op.z_end

\* the cells of the grid are emitted exactly when their centre is in no
\* opening, so that the emitted cells and the openings tile the wall
CellsTileWall ==
    LET xs == x_coords(result.segment)
        zs == z_coords(result.segment)
    IN  /\ xs[1] = 0 /\ xs[Len(xs)] = result.segment.length
        /\ zs[1] = 0 /\ zs[Len(zs)] = result.segment.height
        /\ \A i \in 1..(Len(xs) - 1), j \in 1..(Len(zs) - 1) :
               HasFace("cell", "outer", xs[i], xs[i + 1], zs[j], zs[j + 1])
                   <=> ~CentreInOpening(xs[i], xs[i + 1], zs[j], zs[j + 1])
        /\ \A a, b \in 1..Len(result.faces) :
               /\ a < b
               /\ result.faces[a].part = "cell" /\ result.faces[a].kind = "outer"
               /\ result.faces[b].part = "cell" /\ result.faces[b].kind = "outer"
               => \/ result.faces[a].x1 <= result.faces[b].x0
                  \/ result.faces[b].x1 <= result.faces[a].x0
                  \/ result.faces[a].z1 <= result.faces[b].z0
                  \/ result.faces[b].z1 <= result.faces[a].z0

\* top caps only in the topmost row and only when add_top_cap, bottom caps
\* only in the bottom row
CapsOnRim ==
    \A k \in 1..Len(result.faces) :
        result.faces[k].part = "cell" =>
            /\ result.faces[k].kind = "top" =>
                   result.add_top_cap /\ result.faces[k].z1 = result.segment.height
            /\ result.faces[k].kind = "bottom" => result.faces[k].z0 = 0

\* top, left and right frame for every opening, a bottom frame unless the
\* opening starts at floor level
FramesOfOpenings ==
    \A k \in 1..Len(result.segment.openings) :
        LET op == result.segment.openings[k]
        IN  /\ HasFace("frame", "top", op.x_start, op.x_end, op.z_end, op.z_end)
            /\ HasFace("frame", "left", op.x_start, op.x_start, op.z_start, op.z_end)
            /\ HasFace("frame", "right", op.x_end, op.x_end, op.z_start, op.z_end)
            /\ HasFace("frame", "bottom", op.x_start, op.x_end,
                       op.z_start, op.z_start) <=> op.z_start # 0

\* the two end caps, over the full height at both ends of the wall
EndCaps ==
    /\ Cardinality({k \in 1..Len(result.faces) :
                       result.faces[k].part = "end_cap"}) = 2
    /\ HasFace("end_cap", "left_end", 0, 0, 0, result.segment.height)
    /\ HasFace("end_cap", "right_end", result.segment.length,
               result.segment.length, 0, result.segment.height)

\* C21: grid decomposition of a wall with non-overlapping openings inside the
\* wall bounds: a cell is emitted as a solid box if and only if its centre
\* lies in no opening, the emitted cells do not overlap and, with the
\* openings, cover the wall exactly; top caps only in the topmost row and
\* only when add_top_cap, bottom caps only in the bottom row; every opening
\* has a top, a left and a right frame face and a bottom frame face unless it
\* starts at floor level; two end caps close the wall.
C21_Original ==
    GridBuilt => CellsTileWall /\ CapsOnRim /\ FramesOfOpenings /\ EndCaps

-----------------------------------------------------------------------------
(* interiors.py: build_interior_stairs.  A step and the landing are boxes.  *)

STAIR_LANDING == 1 * M

Box(x_min, x_max, y_min, y_max, z_min, z_max) ==
    [x_min |-> x_min, x_max |-> x_max, y_min |-> y_min, y_max |-> y_max,
     z_min |-> z_min, z_max |-> z_max]

\* line 1391: num_steps = max(1, int(floor_height / 0.2))
NumSteps(floor_height) == Max(1, IntDiv(floor_height, 20 * CM))

\* line 1388: stair_depth = y_max - y_min - STAIR_LANDING
StairDepth(stair_zone) == stair_zone.y_max - stair_zone.y_min - STAIR_LANDING

\* build_interior_stairs(bm, stair_zone, floor_height, base_z): step i spans
\* y_min + i * step_depth to y_min + (i + 1) * step_depth and has its top at
\* base_z + (i + 1) * step_height; the landing lies against y_max
build_interior_stairs(stair_zone, floor_height, base_z) ==
    LET num_steps == NumSteps(floor_height)
        stair_depth == StairDepth(stair_zone)
        step_thickness == 12 * CM
        landing_z == base_z + floor_height
        landing_thickness == 15 * CM
        At(i) == stair_zone.y_min + IntDiv(i * stair_depth, num_steps)
    IN  [steps |->
            [n \in 1..num_steps |->
                LET step_top_z == base_z + IntDiv(n * floor_height, num_steps)
                IN  [x_min |-> stair_zone.x_min, x_max |-> stair_zone.x_max,
                     from_y |-> At(n - 1), to_y |-> At(n),
                     z_min |-> step_top_z - step_thickness,
                     z_max |-> step_top_z]],
         landing |-> Box(stair_zone.x_min, stair_zone.x_max,
                         stair_zone.y_max - STAIR_LANDING, stair_zone.y_max,
                         landing_z - landing_thickness, landing_z)]

\* the highest point of the stair flight built on floor floor_idx
FlightTop(p, e) ==
    LET built == build_interior_stairs(e.zone, p.floor_height,
                                       e.floor * p.floor_height)
    IN  Max(built.landing.z_max, built.steps[Len(built.steps)].z_max)

\* the damage of this build cuts the building: min_height < floors * floor_height
DamageLine ==
    /\ HasProfile(damage_profile)
    /\ damage_profile.min_height < params.floors * params.floor_height

\* C26: interior walls and interior stairs are only built below the damage
\* line: when the damage cuts the building (min_height < floors *
\* floor_height), no interior wall and no stair flight reaches above
\* min_height, and none is built on a floor index >= intact_floors.
C26_BelowDamage ==
    DamageLine =>
        \A k \in 1..Len(mesh) :
            /\ mesh[k].kind = "interior_wall" =>
                   /\ mesh[k].base_z + params.floor_height
                          <= damage_profile.min_height
                   /\ mesh[k].floor < intact_floors
            /\ mesh[k].kind = "stairs" =>
                   /\ FlightTop(params, mesh[k]) <= damage_profile.min_height
                   /\ mesh[k].floor < intact_floors

\* a damaged build of three floors has returned with interior walls on two
\* floors and one stair flight, the damage line lying in the top floor
C26_Witness ==
    /\ Returned
    /\ DamageLine
    /\ params.floors = 3
    /\ intact_floors = 2
    /\ \E k \in 1..Len(mesh) : mesh[k].kind = "interior_wall" /\ mesh[k].floor = 1
    /\ Len(StairsBuilt) = 1

StairCalls ==
    [fn : {"build_interior_stairs"},
     stair_position : {"back_right", "back_left", "back_center"},
     width : {2 * M, 8 * M, 20 * M},
     depth : {2 * M, 250 * CM, 275 * CM, 3 * M, 4 * M, 8 * M, 12 * M},
     wall_thickness : {10 * CM, 25 * CM},
     floor_height : {250 * CM, 350 * CM, 6 * M},
     floor_idx : 0..(MaxFloors - 2)]

InitStairs == BuildIdle /\ call \in StairCalls /\ result = NoResult

CallBuildInteriorStairs ==
    /\ call.fn = "build_interior_stairs"
    /\ result.kind = "none"
    /\ LET stair_zone == get_stair_zone(call.width, call.depth,
                                        call.wall_thickness, call.stair_position)
           floor_base_z == call.floor_idx * call.floor_height
       IN  result' = [kind |-> "stairs", zone |-> stair_zone,
                      base_z |-> floor_base_z,
                      built |-> build_interior_stairs(stair_zone, call.floor_height,
                                                      floor_base_z)]
    /\ UNCHANGED <<call, buildVars>>

NextStairs == CallBuildInteriorStairs

SpecStairs == InitStairs /\ [][NextStairs]_vars

StairsReturned == result.kind = "stairs"

\* the footprint x_min..x_max, from_y..to_y lies inside the zone
FootprintInZone(x_min, x_max, from_y, to_y, zone) ==
    /\ zone.x_min <= x_min /\ x_max <= zone.x_max
    /\ zone.y_min <= Min(from_y, to_y) /\ Max(from_y, to_y) <= zone.y_max

StepsInZone ==
    \A n \in 1..Len(result.built.steps) :
        LET s == result.built.steps[n]
        IN  FootprintInZone(s.x_min, s.x_max, s.from_y, s.to_y, result.zone)

LandingInZone ==
    LET l == result.built.landing
    IN  FootprintInZone(l.x_min, l.x_max, l.y_min, l.y_max, result.zone)

StepsAdvance ==
    /\ \A n \in 1..Len(result.built.steps) :
           result.built.steps[n].from_y <= result.built.steps[n].to_y
    /\ \A n \in 1..(Len(result.built.steps) - 1) :
           result.built.steps[n + 1].from_y >= result.built.steps[n].to_y

LastStepAtFloor ==
    result.built.steps[Len(result.built.steps)].z_max
        = result.base_z + call.floor_height

\* C29: every step and the landing built by build_interior_stairs have their
\* footprint inside the stair zone, successive steps advance in +Y with a
\* non-negative step depth, and the top of the last step is at
\* base_z + floor_height, for every stair zone the build can pass
C29_Original ==
    StairsReturned =>
        StepsInZone /\ LandingInZone /\ StepsAdvance /\ LastStepAtFloor

-----------------------------------------------------------------------------
(* The rooms of a profile layout.                                           *)

\* two rectangles share an area
RectsOverlap(a, b) ==
    /\ a.x_min < b.x_max /\ b.x_min < a.x_max
    /\ a.y_min < b.y_max /\ b.y_min < a.y_max

RoomsWellFormed ==
    \A i \in 1..Len(result.layout.rooms) : NonEmptyRect(result.layout.rooms[i])

RoomsInInterior ==
    \A i \in 1..Len(result.layout.rooms) :
        RectInside(result.layout.rooms[i],
                   get_interior_bounds(call.p.width, call.p.depth,
                                       call.p.wall_thickness))

RoomsDisjoint ==
    \A i, j \in 1..Len(result.layout.rooms) :
        i < j => ~RectsOverlap(result.layout.rooms[i], result.layout.rooms[j])

\* C30: on every floor the room rectangles returned by a profile layout are
\* well-formed (x_min < x_max and y_min < y_max), lie inside the interior
\* bounds of the building and are pairwise non-overlapping, for every
\* footprint and wall thickness within the declared ranges
C30_Original ==
    LayoutReturned => RoomsWellFormed /\ RoomsInInterior /\ RoomsDisjoint

====
